---------------------------- MODULE Spec2Model ----------------------------
(***************************************************************************)
(* A model of libMesh's Parallel namespace (include/parallel/parallel.h):  *)
(* typed reductions, point-to-point transfers, gathers, all-to-all and     *)
(* broadcast over an MPI transport, in the HAVE_MPI build.                 *)
(*                                                                         *)
(* Every process p in 0..nprocs-1 runs the same operation `op`.  A call is *)
(* split at the places where it blocks in the transport: the action        *)
(* <name>_call(p) runs the code up to and including the entry into the     *)
(* next transport primitive, the action <name>_ret(p) runs the code from   *)
(* the return of that primitive to the end (or to the next primitive).     *)
(* The transport itself (MPI) is modelled by the Mpi* operators.           *)
(***************************************************************************)
EXTENDS Integers, Sequences, FiniteSets, TLC

(***************************************************************************)
(* Bounds of the model.                                                    *)
(***************************************************************************)
MaxProcs   == 3      \* largest process count explored
MaxVal     == 1      \* scalar values are drawn from 0..MaxVal
MaxLen     == 2      \* longest local vector
MaxBoolLen == 34     \* longest boolean sequence packed (more than one word)
MaxStrLen  == 2      \* longest string broadcast

(***************************************************************************)
(* Program constants.                                                      *)
(***************************************************************************)
UIntBits == 32       \* 8*sizeof(unsigned int)
IntBits  == 32       \* width of int, the type integer promotion yields
UCharBits  == 8      \* 8*sizeof(unsigned char)
UShortBits == 16     \* 8*sizeof(unsigned short)

VARIABLES
  nprocs,    \* libMesh::n_processors()
  op,        \* the operation every process calls
  mem,       \* mem[p]: the arguments and locals of the call running on p
  orig,      \* orig[p]: mem[p] as it was when the call started
  pc,        \* pc[p]: where process p stands in its call
  coll,      \* coll[k][p]: what p handed to the k-th collective primitive
  cseq,      \* cseq[p]: number of collective primitives p has entered
  chan,      \* chan[<<p, q>>]: messages sent by p to q, not yet received
  ncalls,    \* ncalls[p]: number of transport primitives p has called
  fault,     \* fault[p]: the transport call of p that returned a nonzero
             \* status (0: none) and what it left in the receive buffer
  rendezvous,\* TRUE: the transport completes a send only once the matching
             \* receive is posted; FALSE: it buffers every message sent
  b_in,      \* pack/unpack: the boolean sequence given to pack_vector_bool
  words,     \* pack/unpack: the packed words
  b_out,     \* pack/unpack: the sequence unpack_vector_bool writes to
  b_pc       \* pack/unpack: "start", "packed" or "unpacked"

procvars == <<nprocs, op, mem, orig, pc, coll, cseq, chan, ncalls, fault, rendezvous>>
packvars == <<b_in, words, b_out, b_pc>>
vars     == <<nprocs, op, mem, orig, pc, coll, cseq, chan, ncalls, fault, rendezvous,
              b_in, words, b_out, b_pc>>

Procs == 0 .. (nprocs - 1)

\* no transport call of the process has failed
NoFault == [at |-> 0, result |-> <<>>]

\* the transport call p is in (its ncalls[p]-th) is the one that fails
Faulted(p) == fault[p].at # 0 /\ fault[p].at = ncalls[p]

(***************************************************************************)
(* Machine words.  A word of width w is the set of the positions            *)
(* (0 = least significant) of its 1 bits, so that 32-bit values stay        *)
(* inside the integers of TLC.                                             *)
(***************************************************************************)
Bit(a, i) == IF i \in a THEN 1 ELSE 0

\* conversion of a wider value to a w-bit word
Trunc(a, w) == a \cap (0 .. (w - 1))

\* ripple-carry addition of the bits i..w-1 of a and b with carry-in c; once
\* the carry is 0 and b has no bit left, the remaining bits are those of a
RECURSIVE AddCarry(_, _, _, _, _)
AddCarry(a, b, i, c, w) ==
  IF i >= w THEN {}
  ELSE IF c = 0 /\ \A j \in b : j < i THEN {j \in a : j >= i /\ j < w}
  ELSE LET s == Bit(a, i) + Bit(b, i) + c
       IN  (IF s % 2 = 1 THEN {i} ELSE {}) \cup AddCarry(a, b, i + 1, s \div 2, w)

\* a + b in w-bit arithmetic (wraps modulo 2^w); below the lowest 1 bit of b
\* the sum has the bits of a
WordAdd(a, b, w) ==
  IF b = {} THEN Trunc(a, w)
  ELSE LET lo == CHOOSE j \in b : \A k \in b : j <= k
       IN  {j \in a : j < lo /\ j < w} \cup AddCarry(a, b, lo, 0, w)

\* a << k in w-bit arithmetic: bits shifted past the top are lost
Shl(a, k, w) == {i + k : i \in a} \cap (0 .. (w - 1))

\* a >> k (logical)
Shr(a, k) == {i - k : i \in {j \in a : j >= k}}

\* the width in which an expression over a data_bits-wide unsigned type is
\* evaluated: narrower types are promoted to int
PromotedBits(data_bits) == IF data_bits < IntBits THEN IntBits ELSE data_bits

(***************************************************************************)
(* pack_vector_bool / unpack_vector_bool                                   *)
(***************************************************************************)
\* in.size()/data_bits + (in.size()%data_bits?1:0)
PackedSize(in_size, data_bits) ==
  (in_size \div data_bits) + (IF in_size % data_bits # 0 THEN 1 ELSE 0)

\* the loop of pack_vector_bool from index i on; in and out are 1-based here
RECURSIVE PackLoop(_, _, _, _)
PackLoop(in, out, i, data_bits) ==
  IF i = Len(in) THEN out
  ELSE LET index  == i \div data_bits
           offset == i % data_bits
           bitval == Shl(IF in[i + 1] THEN {0} ELSE {}, offset, IntBits)
           sum    == WordAdd(out[index + 1], bitval, PromotedBits(data_bits))
       IN  PackLoop(in,
                    [out EXCEPT ![index + 1] = Trunc(sum, data_bits)],
                    i + 1, data_bits)

pack_vector_bool(in, data_bits) ==
  PackLoop(in, [k \in 1 .. PackedSize(Len(in), data_bits) |-> {}], 0, data_bits)

\* the assertion of unpack_vector_bool
UnpackAssert(in, out, data_bits) == PackedSize(Len(out), data_bits) = Len(in)

\* unpack_vector_bool with the left shift forgotten: the bits above the one
\* wanted are not cleared
unpack_vector_bool_noshl(in, out, data_bits) ==
  [k \in 1 .. Len(out) |->
     LET i      == k - 1
         index  == i \div data_bits
         offset == i % data_bits
     IN  Shr(in[index + 1], offset) # {}]

\* out keeps its size; element i becomes in[index] << (bits-1-offset) >> (bits-1)
unpack_vector_bool(in, out, data_bits) ==
  [k \in 1 .. Len(out) |->
     LET i      == k - 1
         index  == i \div data_bits
         offset == i % data_bits
         w      == PromotedBits(data_bits)
     IN  Shr(Shl(in[index + 1], data_bits - 1 - offset, w), data_bits - 1) # {}]


(***************************************************************************)
(* Specification SpecPack: pack_vector_bool<unsigned int> followed by      *)
(* unpack_vector_bool<unsigned int> on a boolean sequence.                 *)
(***************************************************************************)
\* the sequence of length len that is flip everywhere except at the
\* positions in T, where it is ~flip
BoolSeq(len, T, flip) == [k \in 1 .. len |-> (k \in T) # flip]

\* the process layer at rest (no operation called)
ProcsIdle ==
  /\ nprocs = 1
  /\ op = "none"
  /\ mem = [p \in {0} |-> <<>>]
  /\ orig = [p \in {0} |-> <<>>]
  /\ pc = [p \in {0} |-> "done"]
  /\ coll = <<>>
  /\ cseq = [p \in {0} |-> 0]
  /\ chan = <<>>
  /\ ncalls = [p \in {0} |-> 0]
  /\ fault = [p \in {0} |-> NoFault]
  /\ rendezvous = FALSE

InitPack ==
  /\ ProcsIdle
  /\ \E len \in 0 .. MaxBoolLen, flip \in BOOLEAN :
       \E a \in 0 .. len, b \in 0 .. len :
         /\ a <= b
         /\ b_in = BoolSeq(len, {a, b} \ {0}, flip)
         \* "We need the output vector to already be properly sized":
         \* the right length, and every element differing from b_in's
         /\ b_out = [k \in 1 .. len |-> ~b_in[k]]
  /\ words = <<>>
  /\ b_pc = "start"

\* pack_vector_bool(b_in, words) with T = unsigned int
PackUInt ==
  /\ b_pc = "start"
  /\ words' = pack_vector_bool(b_in, UIntBits)
  /\ b_pc' = "packed"
  /\ UNCHANGED <<b_in, b_out>>
  /\ UNCHANGED procvars

\* unpack_vector_bool(words, b_out) with T = unsigned int
UnpackUInt ==
  /\ b_pc = "packed"
  /\ IF UnpackAssert(words, b_out, UIntBits)
       THEN /\ b_out' = unpack_vector_bool(words, b_out, UIntBits)
            /\ b_pc' = "unpacked"
       ELSE /\ b_pc' = "abort"
            /\ UNCHANGED b_out
  /\ UNCHANGED <<b_in, words>>
  /\ UNCHANGED procvars

NextPack == PackUInt \/ UnpackUInt

SpecPack == InitPack /\ [][NextPack]_vars

\* C3: for every boolean sequence b (length 0, 1, one word, not a multiple of
\* the word width), pack_vector_bool into unsigned int words followed by
\* unpack_vector_bool into a sequence pre-sized to b's length gives back b,
\* and the packed vector has exactly ceil(length / wordbits) words.
C3_PackUnpackRoundTrip ==
  /\ b_pc \in {"packed", "unpacked"} =>
       LET n == Len(words)
       IN  /\ n * UIntBits >= Len(b_in)
           /\ n = 0 \/ (n - 1) * UIntBits < Len(b_in)
  /\ b_pc # "abort"
  /\ b_pc = "unpacked" => b_out = b_in

\* a sequence longer than one word, with the highest bit of the first word
\* and the lowest bit of the second word set, has been packed and unpacked
C3_Witness ==
  /\ b_pc = "unpacked"
  /\ Len(b_in) > UIntBits
  /\ Len(b_in) % UIntBits # 0
  /\ b_in[UIntBits] /\ b_in[UIntBits + 1]
  /\ \E k \in 1 .. Len(b_in) : ~b_in[k]


(***************************************************************************)
(* Specification SpecPackWidths: pack_vector_bool<T> followed by           *)
(* unpack_vector_bool<T> for T = unsigned char, unsigned short and         *)
(* unsigned int.                                                           *)
(***************************************************************************)
\* pack_vector_bool(b_in, words) with a T of data_bits bits
PackWords(data_bits, label) ==
  /\ b_pc = "start"
  /\ words' = pack_vector_bool(b_in, data_bits)
  /\ b_pc' = label
  /\ UNCHANGED <<b_in, b_out>>
  /\ UNCHANGED procvars

\* unpack_vector_bool(words, b_out) with a T of data_bits bits
UnpackWords(data_bits, from, label) ==
  /\ b_pc = from
  /\ IF UnpackAssert(words, b_out, data_bits)
       THEN /\ b_out' = unpack_vector_bool(words, b_out, data_bits)
            /\ b_pc' = label
       ELSE /\ b_pc' = "abort"
            /\ UNCHANGED b_out
  /\ UNCHANGED <<b_in, words>>
  /\ UNCHANGED procvars

PackUChar    == PackWords(UCharBits, "packed8")
UnpackUChar  == UnpackWords(UCharBits, "packed8", "unpacked8")
PackUShort   == PackWords(UShortBits, "packed16")
UnpackUShort == UnpackWords(UShortBits, "packed16", "unpacked16")

NextPackWidths ==
  \/ PackUChar
  \/ UnpackUChar
  \/ PackUShort
  \/ UnpackUShort
  \/ PackUInt
  \/ UnpackUInt

SpecPackWidths == InitPack /\ [][NextPackWidths]_vars

\* C36: the round trip holds for every unsigned word type, of width
\* 8*sizeof(T): with 8-bit and 16-bit words as with 32-bit words, the
\* highest bit of a word included, unpack(pack(b)) == b, the shifts being
\* evaluated under the integer promotions.
C36_RoundTripForEveryWordWidth ==
  /\ b_pc # "abort"
  /\ b_pc \in {"unpacked8", "unpacked16", "unpacked"} => b_out = b_in

\* C36 for what is packed: with every word type bit i % width of word
\* i / width is element i of the sequence, and no other bit is set
C36_PackedBitsForEveryWordWidth ==
  \A data_bits \in {UCharBits, UShortBits, UIntBits} :
    b_pc = (CASE data_bits = UCharBits -> "packed8"
              [] data_bits = UShortBits -> "packed16"
              [] OTHER -> "packed") =>
      /\ Len(words) = PackedSize(Len(b_in), data_bits)
      /\ \A k \in 1 .. Len(words) :
           words[k] = {o \in 0 .. (data_bits - 1) :
                         /\ (k - 1) * data_bits + o < Len(b_in)
                         /\ b_in[(k - 1) * data_bits + o + 1]}

(***************************************************************************)
(* The transport (MPI), collective primitives.  The k-th collective        *)
(* primitive a process enters meets the k-th one of every other process    *)
(* in slot coll[k]; the result a process leaves with is computed from what *)
(* the processes handed in.                                                *)
(***************************************************************************)
NoContrib == [prim |-> "none", buf |-> <<>>, count |-> 0, mop |-> "none", root |-> 0]

Contribution(prim, buf, count, mop, root_id) ==
  [prim |-> prim, buf |-> buf, count |-> count, mop |-> mop, root |-> root_id]

\* process p enters a collective primitive, handing in c
MpiEnter(p, c) ==
  LET k == cseq[p] + 1
  IN  /\ cseq' = [cseq EXCEPT ![p] = k]
      /\ coll' = IF k > Len(coll)
                   THEN Append(coll, [q \in Procs |-> IF q = p THEN c ELSE NoContrib])
                   ELSE [coll EXCEPT ![k][p] = c]
      /\ ncalls' = [ncalls EXCEPT ![p] = @ + 1]

\* no transport primitive is entered
NoMpi == UNCHANGED <<coll, cseq, chan, ncalls>>

Arrived(k, q) == coll[k][q].prim # "none"
AllArrived(k) == \A q \in Procs : Arrived(k, q)

\* the reduction operators handed to MPI_Allreduce
MpiOp(mop, a, b) ==
  CASE mop = "MPI_MIN"  -> IF b < a THEN b ELSE a
    [] mop = "MPI_MAX"  -> IF b > a THEN b ELSE a
    [] mop = "MPI_SUM"  -> a + b
    [] mop = "MPI_BAND" -> a \cap b
    [] mop = "MPI_BOR"  -> a \cup b

\* element i of slot k reduced over the ranks 0..q
RECURSIVE ReduceRanks(_, _, _)
ReduceRanks(k, i, q) ==
  IF q = 0 THEN coll[k][0].buf[i]
  ELSE MpiOp(coll[k][q].mop, ReduceRanks(k, i, q - 1), coll[k][q].buf[i])

\* a reduction over the ranks up to p only (a scan)
MpiAllreduce_scan(p) ==
  LET k == cseq[p]
  IN  IF Faulted(p) THEN fault[p].result
      ELSE [i \in 1 .. coll[k][p].count |-> ReduceRanks(k, i, p)]

\* MPI_Allreduce: what process p finds in its receive buffer
MpiAllreduce(p) ==
  LET k == cseq[p]
  IN  IF Faulted(p) THEN fault[p].result
      ELSE [i \in 1 .. coll[k][p].count |-> ReduceRanks(k, i, nprocs - 1)]

\* a receive buffer that holds the element of p only
MpiAllgather_ownonly(p) ==
  LET k == cseq[p]
  IN  IF Faulted(p) THEN fault[p].result
      ELSE [j \in 1 .. nprocs |-> IF j - 1 = p THEN coll[k][p].buf[1] ELSE 0]

\* MPI_Allgather with one element per process: the receive buffer
MpiAllgather(p) ==
  LET k == cseq[p]
  IN  IF Faulted(p) THEN fault[p].result
      ELSE [j \in 1 .. nprocs |-> coll[k][j - 1].buf[1]]

\* MPI_Gatherv / MPI_Allgatherv: recvbuf after the block of every rank q,
\* recvcounts[q] elements long, has been stored at displs[q]
\* (recvcounts and displs are 1-based sequences here, indexed by rank + 1)
MpiGatherv(p, recvbuf, recvcounts, displs) ==
  LET k == cseq[p]
      Src(j) == {q \in Procs : /\ displs[q + 1] < j
                               /\ j <= displs[q + 1] + recvcounts[q + 1]
                               /\ j - displs[q + 1] <= Len(coll[k][q].buf)}
  IN  [j \in 1 .. Len(recvbuf) |->
         IF Src(j) = {} THEN recvbuf[j]
         ELSE LET q == CHOOSE q \in Src(j) : \A q2 \in Src(j) : q2 <= q
              IN  coll[k][q].buf[j - displs[q + 1]]]

\* MPI_Alltoall: block j of p's receive buffer is block p of what rank j sent
MpiAlltoall(p, recvbuf, size_per_proc) ==
  LET k == cseq[p]
  IN  [j \in 1 .. Len(recvbuf) |->
         IF j <= nprocs * size_per_proc
           THEN LET from == (j - 1) \div size_per_proc
                    off  == (j - 1) % size_per_proc
                IN  coll[k][from].buf[p * size_per_proc + off + 1]
           ELSE recvbuf[j]]

\* MPI_Bcast: the buffer of p afterwards (the root keeps its own)
MpiBcast(p, buf, root_id) ==
  LET k == cseq[p]
  IN  IF p = root_id THEN buf
      ELSE [j \in 1 .. Len(buf) |->
              IF j <= Len(coll[k][root_id].buf) THEN coll[k][root_id].buf[j]
              ELSE buf[j]]


(***************************************************************************)
(* The process layer: common parts of the actions.                         *)
(***************************************************************************)
Goto(p, label) == pc' = [pc EXCEPT ![p] = label]

\* what no call changes
CallFrame == UNCHANGED <<nprocs, op, orig, rendezvous, b_in, words, b_out, b_pc>>

\* the same for a step in which no transport call fails
Frame == CallFrame /\ UNCHANGED fault

\* pack/unpack at rest
PackIdle ==
  /\ b_in = <<>>
  /\ words = <<>>
  /\ b_out = <<>>
  /\ b_pc = "idle"

\* n processes are about to call operation o with the arguments and locals
\* m, over a transport that completes sends by rendezvous (sync) or buffers
ProcInitSync(n, o, m, sync) ==
  /\ nprocs = n
  /\ op = o
  /\ mem = m
  /\ orig = m
  /\ pc = [p \in 0 .. (n - 1) |-> "start"]
  /\ coll = <<>>
  /\ cseq = [p \in 0 .. (n - 1) |-> 0]
  /\ chan = [pr \in (0 .. (n - 1)) \X (0 .. (n - 1)) |-> <<>>]
  /\ ncalls = [p \in 0 .. (n - 1) |-> 0]
  /\ fault = [p \in 0 .. (n - 1) |-> NoFault]
  /\ rendezvous = sync
  /\ PackIdle

\* the same for the operations that send no point-to-point message
ProcInit(n, o, m) == ProcInitSync(n, o, m, FALSE)

\* the vector first, first+1, ... of length len, over 0..MaxVal
Ramp(len, first) == [i \in 1 .. len |-> (first + i - 1) % (MaxVal + 1)]

\* one vector of length len on each of n processes, each starting at a
\* value of its own
Vectors(n, len) ==
  {[p \in 0 .. (n - 1) |-> Ramp(len, first[p])] : first \in [0 .. (n - 1) -> 0 .. MaxVal]}

\* lengths 0..maxlen for n processes: all the same (step 0), or changing
\* from rank to rank by step
Lengths(n, maxlen) ==
  {[p \in 0 .. (n - 1) |-> (lshift + step * p) % (maxlen + 1)] :
     lshift \in 0 .. maxlen, step \in 0 .. maxlen}

\* a value no send buffer holds
Garbage == MaxVal + 1

\* on each of n processes a vector of a length of its own
VecInputs(n, maxlen) ==
  {[p \in 0 .. (n - 1) |-> Ramp(len[p], p + shift)] :
     len \in Lengths(n, maxlen), shift \in 0 .. MaxVal}

\* the processes have entered collective k with differing counts, which
\* MPI leaves undefined
MismatchedCounts(k) == \E q, q2 \in Procs : coll[k][q].count # coll[k][q2].count

\* element i of slot k reduced over those of the ranks 0..q that handed in
\* an element i, none is the value when there is no such rank
RECURSIVE ReducePresent(_, _, _, _)
ReducePresent(k, i, q, none) ==
  LET has  == i <= Len(coll[k][q].buf)
      rest == IF q = 0 THEN none ELSE ReducePresent(k, i, q - 1, none)
  IN  IF ~has THEN rest
      ELSE IF rest = none THEN coll[k][q].buf[i]
      ELSE MpiOp(coll[k][q].mop, rest, coll[k][q].buf[i])

\* what MPI_Allreduce may leave in the receive buffer recvbuf of p: with
\* matching counts the reduction; with differing counts the buffer as it
\* was, the reduction of what arrived, or anything else
AllreduceInto(p, recvbuf) ==
  LET k == cseq[p]
      n == coll[k][p].count
  IN  IF ~Faulted(p) /\ MismatchedCounts(k)
        THEN {recvbuf, [i \in 1 .. n |-> Garbage],
              [i \in 1 .. n |-> ReducePresent(k, i, nprocs - 1, Garbage)]}
        ELSE {MpiAllreduce(p)}

\* the same for the receive buffer std::vector<T> temp(r.size()) of min and
\* max, which holds zeros
AllreduceOutcomes(p) ==
  AllreduceInto(p, [i \in 1 .. coll[cseq[p]][p].count |-> 0])

\* MPI_Allreduce entered with differing counts may also end in the error
\* handler of the transport, which ends the process
allreduce_mismatch_abort(p) ==
  /\ op \in {"min_vec", "max_vec", "sum_vec"}
  /\ pc[p] = "allreduce"
  /\ AllArrived(cseq[p])
  /\ MismatchedCounts(cseq[p])
  /\ UNCHANGED mem
  /\ NoMpi
  /\ Goto(p, "abort")
  /\ Frame

(***************************************************************************)
(* min, max, sum on a scalar T and on std::vector<T>                       *)
(***************************************************************************)
\* code up to the entry into MPI_Allreduce: `active` is the condition of the
\* if, sendbuf/count what is handed to the transport, mop the MPI operator
AllreduceCall(p, active, sendbuf, count, mop) ==
  /\ pc[p] = "start"
  /\ IF active
       THEN /\ MpiEnter(p, Contribution("MPI_Allreduce", sendbuf, count, mop, 0))
            /\ UNCHANGED chan
            /\ Goto(p, "allreduce")
       ELSE /\ NoMpi
            /\ Goto(p, "done")
  /\ UNCHANGED mem
  /\ Frame

\* min(T &r)
min_call(p) ==
  /\ op = "min"
  /\ AllreduceCall(p, nprocs > 1, <<mem[p].r>>, 1, "MPI_MIN")

min_ret(p) ==
  /\ op = "min"
  /\ pc[p] = "allreduce"
  /\ AllArrived(cseq[p])
  /\ LET temp == MpiAllreduce(p)[1]
     IN  mem' = [mem EXCEPT ![p].r = temp]
  /\ Goto(p, "done")
  /\ NoMpi
  /\ Frame

\* min(std::vector<T> &r) with MPI_MAX in place of MPI_MIN
min_vec_call_max(p) ==
  /\ op = "min_vec"
  /\ AllreduceCall(p, nprocs > 1, mem[p].r, Len(mem[p].r), "MPI_MAX")

\* min(std::vector<T> &r)
min_vec_call(p) ==
  /\ op = "min_vec"
  /\ AllreduceCall(p, nprocs > 1, mem[p].r, Len(mem[p].r), "MPI_MIN")

min_vec_ret(p) ==
  /\ op = "min_vec"
  /\ pc[p] = "allreduce"
  /\ AllArrived(cseq[p])
  /\ \E temp \in AllreduceOutcomes(p) :
       mem' = [mem EXCEPT ![p].r = temp]
  /\ Goto(p, "done")
  /\ NoMpi
  /\ Frame

\* max(T &r)
max_call(p) ==
  /\ op = "max"
  /\ AllreduceCall(p, nprocs > 1, <<mem[p].r>>, 1, "MPI_MAX")

max_ret(p) ==
  /\ op = "max"
  /\ pc[p] = "allreduce"
  /\ AllArrived(cseq[p])
  /\ LET temp == MpiAllreduce(p)[1]
     IN  mem' = [mem EXCEPT ![p].r = temp]
  /\ Goto(p, "done")
  /\ NoMpi
  /\ Frame

\* max(std::vector<T> &r) skipped when r is empty, as sum is
max_vec_call_emptytest(p) ==
  /\ op = "max_vec"
  /\ AllreduceCall(p, nprocs > 1 /\ mem[p].r # <<>>, mem[p].r, Len(mem[p].r), "MPI_MAX")

\* max(std::vector<T> &r)
max_vec_call(p) ==
  /\ op = "max_vec"
  /\ AllreduceCall(p, nprocs > 1, mem[p].r, Len(mem[p].r), "MPI_MAX")

max_vec_ret(p) ==
  /\ op = "max_vec"
  /\ pc[p] = "allreduce"
  /\ AllArrived(cseq[p])
  /\ \E temp \in AllreduceOutcomes(p) :
       mem' = [mem EXCEPT ![p].r = temp]
  /\ Goto(p, "done")
  /\ NoMpi
  /\ Frame

\* sum(T &r): temp = r is sent, the result is received into r
sum_call(p) ==
  /\ op = "sum"
  /\ AllreduceCall(p, nprocs > 1, <<mem[p].r>>, 1, "MPI_SUM")

sum_ret(p) ==
  /\ op = "sum"
  /\ pc[p] = "allreduce"
  /\ AllArrived(cseq[p])
  /\ mem' = [mem EXCEPT ![p].r = MpiAllreduce(p)[1]]
  /\ Goto(p, "done")
  /\ NoMpi
  /\ Frame

\* sum(std::vector<T> &r) entering the all-reduce whenever r is not empty,
\* also with one process
sum_vec_call_anyprocs(p) ==
  /\ op = "sum_vec"
  /\ AllreduceCall(p, mem[p].r # <<>>, mem[p].r, Len(mem[p].r), "MPI_SUM")

\* sum(std::vector<T> &r): skipped when r is empty
sum_vec_call(p) ==
  /\ op = "sum_vec"
  /\ AllreduceCall(p, nprocs > 1 /\ mem[p].r # <<>>, mem[p].r, Len(mem[p].r), "MPI_SUM")

sum_vec_ret(p) ==
  /\ op = "sum_vec"
  /\ pc[p] = "allreduce"
  /\ AllArrived(cseq[p])
  /\ \E recv \in AllreduceInto(p, mem[p].r) :
       mem' = [mem EXCEPT ![p].r = recv]
  /\ Goto(p, "done")
  /\ NoMpi
  /\ Frame

(***************************************************************************)
(* Specification SpecReduce: every process calls the same reduction, on a  *)
(* scalar or on vectors of one common length.                              *)
(***************************************************************************)
InitReduceN(n) ==
  \/ \E o \in {"min", "max", "sum"} :
       \E m \in [0 .. (n - 1) -> [r : 0 .. MaxVal]] : ProcInit(n, o, m)
  \/ \E o \in {"min_vec", "max_vec", "sum_vec"} :
       \E len \in 0 .. MaxLen :
         \E v \in Vectors(n, len) :
           ProcInit(n, o, [p \in 0 .. (n - 1) |-> [r |-> v[p]]])

InitReduce == \E n \in 1 .. MaxProcs : InitReduceN(n)

NextReduce ==
  \/ \E p \in Procs : min_call(p)
  \/ \E p \in Procs : min_ret(p)
  \/ \E p \in Procs : min_vec_call(p)
  \/ \E p \in Procs : min_vec_ret(p)
  \/ \E p \in Procs : max_call(p)
  \/ \E p \in Procs : max_ret(p)
  \/ \E p \in Procs : max_vec_call(p)
  \/ \E p \in Procs : max_vec_ret(p)
  \/ \E p \in Procs : sum_call(p)
  \/ \E p \in Procs : sum_ret(p)
  \/ \E p \in Procs : sum_vec_call(p)
  \/ \E p \in Procs : sum_vec_ret(p)

SpecReduce == InitReduce /\ [][NextReduce]_vars

\* the reference sequential reductions of the values vals[0..n-1]
RefMin(vals) == CHOOSE m \in {vals[q] : q \in DOMAIN vals} :
                  \A q \in DOMAIN vals : m <= vals[q]
RefMax(vals) == CHOOSE m \in {vals[q] : q \in DOMAIN vals} :
                  \A q \in DOMAIN vals : m >= vals[q]
RECURSIVE RefSumFrom(_, _)
RefSumFrom(vals, q) ==
  IF q \notin DOMAIN vals THEN 0 ELSE vals[q] + RefSumFrom(vals, q + 1)
RefSum(vals) == RefSumFrom(vals, 0)

RefReduce(o, vals) ==
  CASE o \in {"min", "min_vec"} -> RefMin(vals)
    [] o \in {"max", "max_vec"} -> RefMax(vals)
    [] o \in {"sum", "sum_vec"} -> RefSum(vals)

\* C1: for N > 1, after every process has called the same reduction on a
\* scalar (or on vectors of one length), each process that has returned holds,
\* element by element, the reference reduction of the N original values,
\* so all processes hold the same result.
C1_ReductionMatchesReference ==
  \A p \in Procs :
    (nprocs > 1 /\ pc[p] = "done") =>
      IF op \in {"min", "max", "sum"}
        THEN mem[p].r = RefReduce(op, [q \in Procs |-> orig[q].r])
        ELSE /\ Len(mem[p].r) = Len(orig[p].r)
             /\ \A i \in 1 .. Len(orig[p].r) :
                  mem[p].r[i] = RefReduce(op, [q \in Procs |-> orig[q].r[i]])

\* three processes with differing vectors have all returned from min
C1_Witness ==
  /\ nprocs > 2
  /\ op = "min_vec"
  /\ \A p \in Procs : pc[p] = "done" /\ Len(orig[p].r) = 2
  /\ \E p, q \in Procs : orig[p].r[1] < orig[q].r[1] /\ orig[p].r[2] > orig[q].r[2]
  /\ \E p \in Procs : mem[p].r # orig[p].r


(***************************************************************************)
(* Specification SpecReduceLengths: every process calls the same reduction *)
(* on a vector of a length of its own.                                     *)
(***************************************************************************)
InitReduceLengths ==
  \E n \in 1 .. MaxProcs, o \in {"min_vec", "max_vec", "sum_vec"} :
    \E v \in VecInputs(n, MaxLen) :
      ProcInit(n, o, [p \in 0 .. (n - 1) |-> [r |-> v[p]]])

NextReduceLengths ==
  \/ \E p \in Procs : min_vec_call(p)
  \/ \E p \in Procs : min_vec_ret(p)
  \/ \E p \in Procs : max_vec_call(p)
  \/ \E p \in Procs : max_vec_ret(p)
  \/ \E p \in Procs : sum_vec_call(p)
  \/ \E p \in Procs : sum_vec_ret(p)
  \/ \E p \in Procs : allreduce_mismatch_abort(p)

SpecReduceLengths == InitReduceLengths /\ [][NextReduceLengths]_vars

\* p is past the test at the start of the reduction
Decided(p) == pc[p] # "start"

\* C32: sum(vector) enters the all-reduce iff N > 1 and the local vector is
\* not empty, a local decision: with vectors of one length all processes
\* agree, but when one process passes an empty vector and another a
\* non-empty one, the empty ones return without the all-reduce and the
\* non-empty ones never leave it; min(vector) and max(vector) enter the
\* all-reduce with an empty vector as well.
C32_SumVectorEmptinessIsLocal ==
  \A p \in Procs :
    /\ (op = "sum_vec" /\ Decided(p)) =>
         /\ ncalls[p] = (IF nprocs > 1 /\ orig[p].r # <<>> THEN 1 ELSE 0)
         /\ (\A q \in Procs : Len(orig[q].r) = Len(orig[p].r)) =>
              \A q \in Procs : Decided(q) => ncalls[q] = ncalls[p]
         /\ (nprocs > 1 /\ orig[p].r # <<>> /\ \E q \in Procs : orig[q].r = <<>>) =>
              /\ pc[p] = "allreduce"
              /\ ~AllArrived(cseq[p])
    /\ (op \in {"min_vec", "max_vec"} /\ Decided(p)) =>
         ncalls[p] = (IF nprocs > 1 THEN 1 ELSE 0)

\* of three processes calling sum the one with an empty vector has returned
\* and the two others are in the all-reduce, where no step is left to them
C32_Witness ==
  /\ op = "sum_vec"
  /\ nprocs > 2
  /\ \E p \in Procs :
       /\ orig[p].r = <<>> /\ pc[p] = "done" /\ ncalls[p] = 0
       /\ \A q \in Procs \ {p} : orig[q].r # <<>> /\ pc[q] = "allreduce"
  /\ ~ENABLED NextReduceLengths

(***************************************************************************)
(* verify(const T &r), T a scalar (op "verify") or a std::vector of        *)
(* scalars (op "verify_vec"); the calls of min and max it makes are those  *)
(* of the overload for T, the last one is min(bool &).                     *)
(* verify(const std::string &r) (op "verify_string") copies r into a       *)
(* std::vector<short int> and is verify on that vector.                    *)
(***************************************************************************)
VerifyOps == {"verify", "verify_vec", "verify_string"}
VerifyOnVector == op \in {"verify_vec", "verify_string"}

\* how min(T&)/max(T&) and min/max(std::vector<T>&) hand r to MPI_Allreduce
ReduceSendBuf(x) == IF VerifyOnVector THEN x ELSE <<x>>
ReduceCount(x)   == IF VerifyOnVector THEN Len(x) ELSE 1
\* and what they assign to r from the receive buffer temp
ReduceRecv(temp) == IF VerifyOnVector THEN temp ELSE temp[1]

\* temp.push_back(r[i]): a char (a byte, 0..255 here) converted to short
\* int; where plain char is signed the bytes from 128 on are negative
CharToShort(c, char_signed) == IF char_signed /\ c >= 128 THEN c - 256 ELSE c

StringToShorts(str, char_signed) ==
  [i \in 1 .. Len(str) |-> CharToShort(str[i], char_signed)]

\* the value the generic verify works on
VerifyArg(p) ==
  IF op = "verify_string" THEN StringToShorts(mem[p].r, mem[p].char_signed)
  ELSE mem[p].r

\* MPI_Allreduce entered with differing counts may also end in the error
\* handler of the transport, which ends the process
verify_mismatch_abort(p) ==
  /\ op \in VerifyOps
  /\ pc[p] \in {"verify_min", "verify_max"}
  /\ AllArrived(cseq[p])
  /\ MismatchedCounts(cseq[p])
  /\ UNCHANGED mem
  /\ NoMpi
  /\ Goto(p, "abort")
  /\ Frame

verify_call(p) ==
  /\ op \in VerifyOps
  /\ pc[p] = "start"
  /\ IF nprocs > 1
       THEN \* T tempmin = r, tempmax = r; Parallel::min(tempmin) ...
            /\ mem' = [mem EXCEPT ![p].tempmin = VerifyArg(p), ![p].tempmax = VerifyArg(p)]
            /\ MpiEnter(p, Contribution("MPI_Allreduce", ReduceSendBuf(VerifyArg(p)),
                                        ReduceCount(VerifyArg(p)), "MPI_MIN", 0))
            /\ UNCHANGED chan
            /\ Goto(p, "verify_min")
       ELSE \* return true
            /\ mem' = [mem EXCEPT ![p].ret = TRUE]
            /\ NoMpi
            /\ Goto(p, "done")
  /\ Frame

\* verify returning false as soon as r differs from the minimum
verify_min_ret_earlyout(p) ==
  /\ op \in VerifyOps
  /\ pc[p] = "verify_min"
  /\ AllArrived(cseq[p])
  /\ \E temp \in AllreduceOutcomes(p) :
       IF VerifyArg(p) = ReduceRecv(temp)
         THEN /\ mem' = [mem EXCEPT ![p].tempmin = ReduceRecv(temp)]
              /\ MpiEnter(p, Contribution("MPI_Allreduce", ReduceSendBuf(mem[p].tempmax),
                                          ReduceCount(mem[p].tempmax), "MPI_MAX", 0))
              /\ Goto(p, "verify_max")
         ELSE /\ mem' = [mem EXCEPT ![p].tempmin = ReduceRecv(temp), ![p].ret = FALSE]
              /\ UNCHANGED <<coll, cseq, ncalls>>
              /\ Goto(p, "done")
  /\ UNCHANGED chan
  /\ Frame

\* ... Parallel::min(tempmin) returns; Parallel::max(tempmax) ...
verify_min_ret(p) ==
  /\ op \in VerifyOps
  /\ pc[p] = "verify_min"
  /\ AllArrived(cseq[p])
  /\ \E temp \in AllreduceOutcomes(p) :
       mem' = [mem EXCEPT ![p].tempmin = ReduceRecv(temp)]
  /\ MpiEnter(p, Contribution("MPI_Allreduce", ReduceSendBuf(mem[p].tempmax),
                              ReduceCount(mem[p].tempmax), "MPI_MAX", 0))
  /\ UNCHANGED chan
  /\ Goto(p, "verify_max")
  /\ Frame

\* verify with || in place of && in the comparison
verify_max_ret_or(p) ==
  /\ op \in VerifyOps
  /\ pc[p] = "verify_max"
  /\ AllArrived(cseq[p])
  /\ \E temp \in AllreduceOutcomes(p) :
       LET tempmax  == ReduceRecv(temp)
           verified == (VerifyArg(p) = mem[p].tempmin) \/ (VerifyArg(p) = tempmax)
           tempsend == IF verified THEN 1 ELSE 0
       IN  /\ mem' = [mem EXCEPT ![p].tempmax = tempmax, ![p].verified = verified]
           /\ MpiEnter(p, Contribution("MPI_Allreduce", <<tempsend>>, 1, "MPI_MIN", 0))
  /\ UNCHANGED chan
  /\ Goto(p, "verify_flag")
  /\ Frame

\* ... Parallel::max(tempmax) returns; verified = (r == tempmin) &&
\* (r == tempmax); Parallel::min(verified), the bool specialisation, sends
\* the flag as an unsigned int ...
verify_max_ret(p) ==
  /\ op \in VerifyOps
  /\ pc[p] = "verify_max"
  /\ AllArrived(cseq[p])
  /\ \E temp \in AllreduceOutcomes(p) :
       LET tempmax  == ReduceRecv(temp)
           verified == (VerifyArg(p) = mem[p].tempmin) /\ (VerifyArg(p) = tempmax)
           tempsend == IF verified THEN 1 ELSE 0
       IN  /\ mem' = [mem EXCEPT ![p].tempmax = tempmax, ![p].verified = verified]
           /\ MpiEnter(p, Contribution("MPI_Allreduce", <<tempsend>>, 1, "MPI_MIN", 0))
  /\ UNCHANGED chan
  /\ Goto(p, "verify_flag")
  /\ Frame

\* ... Parallel::min(verified) returns: r = temp (nonzero is true);
\* return verified
verify_flag_ret(p) ==
  /\ op \in VerifyOps
  /\ pc[p] = "verify_flag"
  /\ AllArrived(cseq[p])
  /\ LET temp == MpiAllreduce(p)[1]
     IN  mem' = [mem EXCEPT ![p].verified = (temp # 0), ![p].ret = (temp # 0)]
  /\ NoMpi
  /\ Goto(p, "done")
  /\ Frame

(***************************************************************************)
(* Specification SpecVerify: every process calls verify, on a scalar or on *)
(* vectors of one common length.                                           *)
(***************************************************************************)
VerifyMem(n, vals, zero) ==
  [p \in 0 .. (n - 1) |->
     [r |-> vals[p], tempmin |-> zero, tempmax |-> zero,
      verified |-> FALSE, ret |-> FALSE]]

InitVerifyN(n) ==
  \/ \E vals \in [0 .. (n - 1) -> 0 .. MaxVal] :
       ProcInit(n, "verify", VerifyMem(n, vals, 0))
  \/ \E len \in 0 .. MaxLen :
       \E vals \in Vectors(n, len) :
         ProcInit(n, "verify_vec", VerifyMem(n, vals, <<>>))

InitVerify == \E n \in 1 .. MaxProcs : InitVerifyN(n)

NextVerify ==
  \/ \E p \in Procs : verify_call(p)
  \/ \E p \in Procs : verify_min_ret(p)
  \/ \E p \in Procs : verify_max_ret(p)
  \/ \E p \in Procs : verify_flag_ret(p)

SpecVerify == InitVerify /\ [][NextVerify]_vars

\* the value verify is called with is the same on every process
AllSame == \A p, q \in Procs : orig[p].r = orig[q].r

\* C2: for N > 1, verify(x) returns true iff x is identical on all
\* processes; in particular when x differs on exactly one process it returns
\* false on every process, those agreeing with the majority included.
C2_VerifyIffIdentical ==
  \A p \in Procs :
    (nprocs > 1 /\ pc[p] = "done") => (mem[p].ret <=> AllSame)

\* x differs on exactly one of three processes, and all have returned false
C2_Witness ==
  /\ nprocs > 2
  /\ \A p \in Procs : pc[p] = "done" /\ ~mem[p].ret
  /\ \E odd \in Procs :
       \A p, q \in Procs \ {odd} : orig[p].r = orig[q].r /\ orig[p].r # orig[odd].r

\* the reduction p entered as its k-th transport call
VerifyReduction(p, k) == <<coll[k][p].prim, coll[k][p].mop>>

\* the flag p computed from its two comparisons and handed to min(bool &)
LocalFlag(p) == coll[3][p].buf[1] # 0

\* C29: verify returns the same boolean on every process: every process,
\* whatever its value and whatever its comparison yields, performs the same
\* three reductions in the same order (min of x, max of x, min of the flag);
\* no process returns without the final reduction or with a flag different
\* from another process's.
C29_VerifySameReductionsSameAnswer ==
  nprocs > 1 =>
    \A p \in Procs :
      /\ pc[p] = "start" => cseq[p] = 0
      /\ pc[p] = "verify_min" => cseq[p] = 1
      /\ pc[p] = "verify_max" => cseq[p] = 2
      /\ pc[p] \in {"verify_flag", "done"} => cseq[p] = 3
      /\ pc[p] \in {"start", "verify_min", "verify_max", "verify_flag", "done"}
      /\ cseq[p] = ncalls[p]
      /\ cseq[p] >= 1 => /\ VerifyReduction(p, 1) = <<"MPI_Allreduce", "MPI_MIN">>
                         /\ coll[1][p].buf = ReduceSendBuf(orig[p].r)
      /\ cseq[p] >= 2 => /\ VerifyReduction(p, 2) = <<"MPI_Allreduce", "MPI_MAX">>
                         /\ coll[2][p].buf = ReduceSendBuf(orig[p].r)
      /\ cseq[p] >= 3 => /\ VerifyReduction(p, 3) = <<"MPI_Allreduce", "MPI_MIN">>
                         /\ coll[3][p].count = 1
      /\ \A q \in Procs : (pc[p] = "done" /\ pc[q] = "done") => mem[p].ret = mem[q].ret

\* of three processes one holds the minimum and not the maximum, another
\* the maximum and not the minimum; all have made the three reductions and
\* returned false
C29_Witness ==
  /\ nprocs > 2
  /\ op = "verify"
  /\ \A p \in Procs : pc[p] = "done" /\ ncalls[p] = 3 /\ ~mem[p].ret
  /\ \E p, q \in Procs : /\ orig[p].r = mem[p].tempmin
                          /\ orig[p].r # mem[p].tempmax
                          /\ orig[q].r # mem[q].tempmin
                          /\ orig[q].r = mem[q].tempmax

\* C30: in verify on scalars and on vectors of one length, the flag computed
\* locally (x == global min and x == global max) is the same on every
\* process before the final min-reduction (false everywhere when the values
\* are not all equal), so the final reduction changes no process's flag.
C30_LocalFlagAlreadyAgreed ==
  nprocs > 1 =>
    \A p \in Procs :
      cseq[p] = 3 =>
        /\ LocalFlag(p) <=> AllSame
        /\ \A q \in Procs : cseq[q] = 3 => LocalFlag(q) = LocalFlag(p)
        /\ pc[p] = "verify_flag" => mem[p].verified = LocalFlag(p)
        /\ pc[p] = "done" => /\ mem[p].verified = LocalFlag(p)
                             /\ mem[p].ret = LocalFlag(p)

\* the values differ, one process holds the minimum at every position, and
\* its flag is false before the final reduction as it is after it
C30_Witness ==
  /\ nprocs > 1
  /\ ~AllSame
  /\ \E p, q \in Procs :
       /\ pc[p] = "verify_flag" /\ orig[p].r = mem[p].tempmin /\ ~mem[p].verified
       /\ pc[q] = "done" /\ ~mem[q].ret /\ ~LocalFlag(q)

(***************************************************************************)
(* Specification SpecVerifyString: every process calls verify on a string  *)
(* of its own, of any length; the characters are the bytes from 127 on.    *)
(* One process less than MaxProcs keeps the outcomes of the all-reduces    *)
(* with differing counts, chosen by every process, enumerable.             *)
(***************************************************************************)
Strings(n, maxlen) ==
  {[p \in 0 .. (n - 1) |-> [i \in 1 .. Len(v[p]) |-> 127 + v[p][i]]] :
     v \in VecInputs(n, maxlen)}

InitVerifyString ==
  \E n \in 1 .. (MaxProcs - 1), char_signed \in BOOLEAN :
    \E strs \in Strings(n, MaxStrLen) :
      ProcInit(n, "verify_string",
        [p \in 0 .. (n - 1) |->
           [r |-> strs[p], char_signed |-> char_signed, tempmin |-> <<>>,
            tempmax |-> <<>>, verified |-> FALSE, ret |-> FALSE]])

NextVerifyString ==
  \/ NextVerify
  \/ \E p \in Procs : verify_mismatch_abort(p)

SpecVerifyString == InitVerifyString /\ [][NextVerifyString]_vars

\* C28: across N > 1 processes verify(string) returns true on every process
\* iff the strings are identical on all processes, and returns false on
\* every process when the strings differ in content or in length.
C28_VerifyStringIffIdentical ==
  \A p \in Procs :
    (nprocs > 1 /\ op = "verify_string") =>
      /\ pc[p] # "abort"
      /\ pc[p] = "done" => (mem[p].ret <=> AllSame)

\* C28 for strings of one length: verify(string) returns true on every
\* process iff the strings are identical
C28_VerifyStringSameLength ==
  \A p \in Procs :
    (/\ nprocs > 1
     /\ op = "verify_string"
     /\ \A q \in Procs : Len(orig[q].r) = Len(orig[p].r)) =>
      /\ pc[p] # "abort"
      /\ pc[p] = "done" => (mem[p].ret <=> AllSame)


(***************************************************************************)
(* The transport (MPI), point-to-point.  chan[<<p, q>>] holds, in the      *)
(* order sent, the messages p has sent to q that q has not yet received    *)
(* (messages between one pair of processes do not overtake each other).    *)
(***************************************************************************)
any_tag == -1

Msg(tag, data) == [tag |-> tag, data |-> data]

TagMatches(want, tag) == want = any_tag \/ want = tag

\* positions in the queue from `from` to `to` of the messages a receive
\* with tag `want` can match; it matches the earliest
Matching(ch, from, to, want) ==
  {i \in 1 .. Len(ch[<<from, to>>]) : TagMatches(want, ch[<<from, to>>][i].tag)}
CanRecv(ch, from, to, want) == Matching(ch, from, to, want) # {}
\* a receive that matches the latest message
FirstMatch_latest(ch, from, to, want) ==
  CHOOSE i \in Matching(ch, from, to, want) :
    \A j \in Matching(ch, from, to, want) : i >= j

FirstMatch(ch, from, to, want) ==
  CHOOSE i \in Matching(ch, from, to, want) :
    \A j \in Matching(ch, from, to, want) : i <= j
\* the message the receive of `to` ends with
Received(ch, from, to, want) ==
  IF Faulted(to) THEN [ch[<<from, to>>][FirstMatch(ch, from, to, want)]
                         EXCEPT !.data = fault[to].result]
  ELSE ch[<<from, to>>][FirstMatch(ch, from, to, want)]

ChanSend(ch, from, to, m) == [ch EXCEPT ![<<from, to>>] = Append(@, m)]
ChanRecv(ch, from, to, want) ==
  LET i == FirstMatch(ch, from, to, want)
      q == ch[<<from, to>>]
  IN  [ch EXCEPT ![<<from, to>>] = SubSeq(q, 1, i - 1) \o SubSeq(q, i + 1, Len(q))]

\* a receive of at most count elements into buf: the message is stored at the
\* start of buf; a message longer than count is a truncation error
RecvFits(count, data) == Len(data) <= count
RecvInto(buf, data) ==
  [j \in 1 .. Len(buf) |-> IF j <= Len(data) THEN data[j] ELSE buf[j]]

\* the send half of MPI_Sendrecv: p hands data to the transport for dest
\* (tag 0); counts one transport call
SendrecvEnter(p, ch, dest, data) ==
  /\ chan' = ChanSend(ch, p, dest, Msg(0, data))
  /\ ncalls' = [ncalls EXCEPT ![p] = @ + 1]
  /\ UNCHANGED <<coll, cseq>>

\* q is inside a receive from p: in an MPI_Sendrecv or an MPI_Recv with
\* source p, or with an MPI_Irecv from p not yet waited for
Posted(q, p) ==
  \/ /\ pc[q] \in {"sendrecv", "sendrecv_size", "sendrecv_sizes", "sendrecv_data",
                   "mpi_recv"}
     /\ mem[q].source = p
  \/ /\ op = "nonblocking"
     /\ mem[q].rreq.kind = "recv"
     /\ mem[q].rreq.peer = p

\* a send that is complete only once the message is buffered or received,
\* as that of a blocking send issued before the receive
SendComplete_received(p, dest) ==
  \/ ~rendezvous
  \/ Len(chan[<<p, dest>>]) = 0

\* the send half of the last send of p to dest is complete: the message is
\* buffered, or received, or the one the receive posted by dest matches
SendComplete(p, dest) ==
  \/ ~rendezvous
  \/ Len(chan[<<p, dest>>]) = 0
  \/ Len(chan[<<p, dest>>]) = 1 /\ Posted(dest, p)

\* MPI_Sendrecv of p can return: its message has arrived and its send is
\* complete
SendrecvDone(p) ==
  /\ CanRecv(chan, mem[p].source, p, 0)
  /\ SendComplete(p, mem[p].dest)

\* std::vector::resize: the first n elements kept, new ones value-initialised
Resize(v, n, dflt) == [i \in 1 .. n |-> IF i <= Len(v) THEN v[i] ELSE dflt]

\* a std::complex<T> is the pair <<real, imaginary>>; a vector of them is
\* handed to the transport as 2*size contiguous T
ComplexToReals(v) == [j \in 1 .. 2 * Len(v) |-> v[(j + 1) \div 2][2 - (j % 2)]]
RealsToComplex(x) == [i \in 1 .. (Len(x) \div 2) |-> <<x[2 * i - 1], x[2 * i]>>]

(***************************************************************************)
(* send_receive: scalar T, std::complex<T>, std::vector<T>,                *)
(* std::vector<std::complex<T> >, std::vector<std::vector<T> >             *)
(***************************************************************************)
\* the shortcut taken as soon as one of the two ids is the local rank
IsLocalCopy_either(p) == mem[p].dest = p \/ mem[p].source = p

\* dest_processor_id == processor_id() && source_processor_id == processor_id()
IsLocalCopy(p) == mem[p].dest = p /\ mem[p].source = p

\* recv = send; return
LocalCopy(p) ==
  /\ mem' = [mem EXCEPT ![p].recv = mem[p].send]
  /\ NoMpi
  /\ Goto(p, "done")

\* send_receive(T) / send_receive(std::complex<T>): the memory of a scalar
ScalarBuf(x)        == IF op = "send_receive_complex" THEN x ELSE <<x>>
ScalarFrom(buf)     == IF op = "send_receive_complex" THEN buf ELSE buf[1]

send_receive_call(p) ==
  /\ op \in {"send_receive", "send_receive_complex"}
  /\ pc[p] = "start"
  /\ IF IsLocalCopy(p)
       THEN LocalCopy(p)
       ELSE /\ SendrecvEnter(p, chan, mem[p].dest, ScalarBuf(mem[p].send))
            /\ UNCHANGED mem
            /\ Goto(p, "sendrecv")
  /\ Frame

send_receive_ret(p) ==
  /\ op \in {"send_receive", "send_receive_complex"}
  /\ pc[p] = "sendrecv"
  /\ SendrecvDone(p)
  /\ LET m == Received(chan, mem[p].source, p, 0)
     IN  IF RecvFits(Len(ScalarBuf(mem[p].recv)), m.data)
           THEN /\ mem' = [mem EXCEPT ![p].recv =
                             ScalarFrom(RecvInto(ScalarBuf(mem[p].recv), m.data))]
                /\ Goto(p, "done")
           ELSE /\ UNCHANGED mem
                /\ Goto(p, "abort")
  /\ chan' = ChanRecv(chan, mem[p].source, p, 0)
  /\ UNCHANGED <<coll, cseq, ncalls>>
  /\ Frame

\* send_receive(std::vector<T>) / send_receive(std::vector<std::complex<T> >):
\* the memory of the vectors and the value new elements get
IsComplexVec       == op = "send_receive_vec_complex"
VecBuf(v)          == IF IsComplexVec THEN ComplexToReals(v) ELSE v
VecFrom(buf)       == IF IsComplexVec THEN RealsToComplex(buf) ELSE buf
VecDefault         == IF IsComplexVec THEN <<0, 0>> ELSE 0

\* the first MPI_Sendrecv trades the sizes
SendSizeCall(p) ==
  /\ mem' = [mem EXCEPT ![p].sendsize = Len(mem[p].send)]
  /\ SendrecvEnter(p, chan, mem[p].dest, <<Len(mem[p].send)>>)
  /\ Goto(p, "sendrecv_size")

\* the value of recvsize after a receive of one unsigned int: the element
\* received, or any value if the message was empty (recvsize is uninitialised)
RecvSizes(m) == IF Len(m.data) >= 1 THEN {m.data[1]} ELSE 0 .. MaxLen

\* send_receive(std::vector<T>) without the local-copy shortcut
send_receive_vec_call_noshortcut(p) ==
  /\ op \in {"send_receive_vec", "send_receive_vec_complex"}
  /\ pc[p] = "start"
  /\ SendSizeCall(p)
  /\ Frame

send_receive_vec_call(p) ==
  /\ op \in {"send_receive_vec", "send_receive_vec_complex"}
  /\ pc[p] = "start"
  /\ IF IsLocalCopy(p)
       THEN LocalCopy(p)
       ELSE SendSizeCall(p)
  /\ Frame

\* the size has arrived and recv keeps the size it had
send_receive_vec_size_ret_noresize(p) ==
  /\ op \in {"send_receive_vec", "send_receive_vec_complex"}
  /\ pc[p] = "sendrecv_size"
  /\ SendrecvDone(p)
  /\ LET m == Received(chan, mem[p].source, p, 0)
     IN  IF RecvFits(1, m.data)
           THEN \E recvsize \in RecvSizes(m) :
                  /\ mem' = [mem EXCEPT ![p].recvsize = recvsize,
                                        ![p].recv = mem[p].recv]
                  /\ SendrecvEnter(p, ChanRecv(chan, mem[p].source, p, 0),
                                   mem[p].dest, VecBuf(mem[p].send))
                  /\ Goto(p, "sendrecv_data")
           ELSE /\ UNCHANGED <<mem, coll, cseq, ncalls>>
                /\ chan' = ChanRecv(chan, mem[p].source, p, 0)
                /\ Goto(p, "abort")
  /\ Frame

\* the size has arrived: recv.resize(recvsize); the second MPI_Sendrecv
\* trades the payloads
send_receive_vec_size_ret(p) ==
  /\ op \in {"send_receive_vec", "send_receive_vec_complex"}
  /\ pc[p] = "sendrecv_size"
  /\ SendrecvDone(p)
  /\ LET m == Received(chan, mem[p].source, p, 0)
     IN  IF RecvFits(1, m.data)
           THEN \E recvsize \in RecvSizes(m) :
                  /\ mem' = [mem EXCEPT ![p].recvsize = recvsize,
                                        ![p].recv = Resize(mem[p].recv, recvsize, VecDefault)]
                  /\ SendrecvEnter(p, ChanRecv(chan, mem[p].source, p, 0),
                                   mem[p].dest, VecBuf(mem[p].send))
                  /\ Goto(p, "sendrecv_data")
           ELSE /\ UNCHANGED <<mem, coll, cseq, ncalls>>
                /\ chan' = ChanRecv(chan, mem[p].source, p, 0)
                /\ Goto(p, "abort")
  /\ Frame

send_receive_vec_ret(p) ==
  /\ op \in {"send_receive_vec", "send_receive_vec_complex"}
  /\ pc[p] = "sendrecv_data"
  /\ SendrecvDone(p)
  /\ LET m == Received(chan, mem[p].source, p, 0)
     IN  IF RecvFits(Len(VecBuf(mem[p].recv)), m.data)
           THEN /\ mem' = [mem EXCEPT ![p].recv =
                             VecFrom(RecvInto(VecBuf(mem[p].recv), m.data))]
                /\ Goto(p, "done")
           ELSE /\ UNCHANGED mem
                /\ Goto(p, "abort")
  /\ chan' = ChanRecv(chan, mem[p].source, p, 0)
  /\ UNCHANGED <<coll, cseq, ncalls>>
  /\ Frame

\* send_receive(std::vector<std::vector<T> >)
RECURSIVE Flatten(_, _)
\* the inner vectors i, i+1, ... of vv one after the other
Flatten(vv, i) == IF i > Len(vv) THEN <<>> ELSE vv[i] \o Flatten(vv, i + 1)

RECURSIVE SumSizes(_, _)
\* sizes[1] + ... + sizes[i]
SumSizes(sizes, i) == IF i = 0 THEN 0 ELSE sizes[i] + SumSizes(sizes, i - 1)

send_receive_vecvec_call(p) ==
  /\ op = "send_receive_vecvec"
  /\ pc[p] = "start"
  /\ IF IsLocalCopy(p)
       THEN LocalCopy(p)
       ELSE SendSizeCall(p)
  /\ Frame

\* the outer size has arrived: recv.resize(recvsize); sendsizes[i] =
\* send[i].size(); the second MPI_Sendrecv trades the inner sizes
send_receive_vecvec_size_ret(p) ==
  /\ op = "send_receive_vecvec"
  /\ pc[p] = "sendrecv_size"
  /\ SendrecvDone(p)
  /\ LET m == Received(chan, mem[p].source, p, 0)
         sendsizes == [i \in 1 .. mem[p].sendsize |-> Len(mem[p].send[i])]
     IN  IF RecvFits(1, m.data)
           THEN \E recvsize \in RecvSizes(m) :
                  /\ mem' = [mem EXCEPT ![p].recvsize = recvsize,
                                        ![p].recv = Resize(mem[p].recv, recvsize, <<>>),
                                        ![p].sendsizes = sendsizes,
                                        ![p].recvsizes = [i \in 1 .. recvsize |-> 0]]
                  /\ SendrecvEnter(p, ChanRecv(chan, mem[p].source, p, 0),
                                   mem[p].dest, sendsizes)
                  /\ Goto(p, "sendrecv_sizes")
           ELSE /\ UNCHANGED <<mem, coll, cseq, ncalls>>
                /\ chan' = ChanRecv(chan, mem[p].source, p, 0)
                /\ Goto(p, "abort")
  /\ Frame

\* the inner sizes have arrived and the inner vectors of recv keep their
\* sizes
send_receive_vecvec_sizes_ret_noresize(p) ==
  /\ op = "send_receive_vecvec"
  /\ pc[p] = "sendrecv_sizes"
  /\ SendrecvDone(p)
  /\ LET m == Received(chan, mem[p].source, p, 0)
         recvsizes   == RecvInto(mem[p].recvsizes, m.data)
         sendsizesum == SumSizes(mem[p].sendsizes, mem[p].sendsize)
         senddata    == Flatten(mem[p].send, 1)
     IN  IF RecvFits(mem[p].recvsize, m.data) /\ Len(senddata) = sendsizesum
           THEN /\ mem' = [mem EXCEPT ![p].recvsizes = recvsizes]
                /\ SendrecvEnter(p, ChanRecv(chan, mem[p].source, p, 0),
                                 mem[p].dest, senddata)
                /\ Goto(p, "sendrecv_data")
           ELSE /\ UNCHANGED <<mem, coll, cseq, ncalls>>
                /\ chan' = ChanRecv(chan, mem[p].source, p, 0)
                /\ Goto(p, "abort")
  /\ Frame

\* the inner sizes have arrived: recv[i].resize(recvsizes[i]); the send
\* vectors are copied one after the other into senddata (the assertion
\* checks the copy ends at senddata.end()); the third MPI_Sendrecv trades
\* the flat buffers
send_receive_vecvec_sizes_ret(p) ==
  /\ op = "send_receive_vecvec"
  /\ pc[p] = "sendrecv_sizes"
  /\ SendrecvDone(p)
  /\ LET m == Received(chan, mem[p].source, p, 0)
         recvsizes   == RecvInto(mem[p].recvsizes, m.data)
         sendsizesum == SumSizes(mem[p].sendsizes, mem[p].sendsize)
         senddata    == Flatten(mem[p].send, 1)
     IN  IF RecvFits(mem[p].recvsize, m.data) /\ Len(senddata) = sendsizesum
           THEN /\ mem' = [mem EXCEPT
                      ![p].recvsizes = recvsizes,
                      ![p].recv = [i \in 1 .. mem[p].recvsize |->
                                     Resize(mem[p].recv[i], recvsizes[i], 0)]]
                /\ SendrecvEnter(p, ChanRecv(chan, mem[p].source, p, 0),
                                 mem[p].dest, senddata)
                /\ Goto(p, "sendrecv_data")
           ELSE /\ UNCHANGED <<mem, coll, cseq, ncalls>>
                /\ chan' = ChanRecv(chan, mem[p].source, p, 0)
                /\ Goto(p, "abort")
  /\ Frame

\* the flat buffer has arrived and every inner vector is read from its
\* start
send_receive_vecvec_ret_fromstart(p) ==
  /\ op = "send_receive_vecvec"
  /\ pc[p] = "sendrecv_data"
  /\ SendrecvDone(p)
  /\ LET m == Received(chan, mem[p].source, p, 0)
         recvsizesum == SumSizes(mem[p].recvsizes, mem[p].recvsize)
         recvdata == RecvInto([j \in 1 .. recvsizesum |-> 0], m.data)
         in(i) == SumSizes(mem[p].recvsizes, i - 1)
     IN  IF RecvFits(recvsizesum, m.data) /\ in(mem[p].recvsize + 1) = Len(recvdata)
           THEN /\ mem' = [mem EXCEPT ![p].recv =
                             [i \in 1 .. mem[p].recvsize |->
                                [j \in 1 .. Len(mem[p].recv[i]) |->
                                   IF j <= mem[p].recvsizes[i]
                                     THEN recvdata[j]
                                     ELSE mem[p].recv[i][j]]]]
                /\ Goto(p, "done")
           ELSE /\ UNCHANGED mem
                /\ Goto(p, "abort")
  /\ chan' = ChanRecv(chan, mem[p].source, p, 0)
  /\ UNCHANGED <<coll, cseq, ncalls>>
  /\ Frame

\* the flat buffer has arrived in recvdata (recvsizesum elements); it is
\* cut into the inner vectors (the assertion checks the cut ends at
\* recvdata.end())
send_receive_vecvec_ret(p) ==
  /\ op = "send_receive_vecvec"
  /\ pc[p] = "sendrecv_data"
  /\ SendrecvDone(p)
  /\ LET m == Received(chan, mem[p].source, p, 0)
         recvsizesum == SumSizes(mem[p].recvsizes, mem[p].recvsize)
         recvdata == RecvInto([j \in 1 .. recvsizesum |-> 0], m.data)
         in(i) == SumSizes(mem[p].recvsizes, i - 1)
     IN  IF RecvFits(recvsizesum, m.data) /\ in(mem[p].recvsize + 1) = Len(recvdata)
           THEN /\ mem' = [mem EXCEPT ![p].recv =
                             [i \in 1 .. mem[p].recvsize |->
                                [j \in 1 .. Len(mem[p].recv[i]) |->
                                   IF j <= mem[p].recvsizes[i]
                                     THEN recvdata[in(i) + j]
                                     ELSE mem[p].recv[i][j]]]]
                /\ Goto(p, "done")
           ELSE /\ UNCHANGED mem
                /\ Goto(p, "abort")
  /\ chan' = ChanRecv(chan, mem[p].source, p, 0)
  /\ UNCHANGED <<coll, cseq, ncalls>>
  /\ Frame

(***************************************************************************)
(* Specification SpecSendRecv: every process calls one overload of         *)
(* send_receive.  Process p sends to dest[p]; it receives from the         *)
(* lowest-ranked other process that sends to it, or from itself if there   *)
(* is none.                                                                *)
(***************************************************************************)
SourceFor(n, dest, p) ==
  LET others == {q \in 0 .. (n - 1) : q # p /\ dest[q] = p}
  IN  IF others = {} THEN p
      ELSE CHOOSE q \in others : \A q2 \in others : q <= q2


ComplexRamp(len, first) ==
  [i \in 1 .. len |-> <<(first + i) % (MaxVal + 1), (first + i + 1) % (MaxVal + 1)>>]
\* inner vectors of the lengths 0, 1, ..., MaxLen, 0, ... starting at lshift
NestedRamp(len, lshift) ==
  [i \in 1 .. len |-> Ramp((i + lshift) % (MaxLen + 1), i)]

SendRecvMem(n, dest, send, recv) ==
  [p \in 0 .. (n - 1) |->
     [dest |-> dest[p], source |-> SourceFor(n, dest, p),
      send |-> send[p], recv |-> recv[p],
      sendsize |-> 0, recvsize |-> 0, sendsizes |-> <<>>, recvsizes |-> <<>>]]

\* the calls of n processes with the destinations dest
SendRecvInputs(n, dest, sync) ==
    \/ \E shift \in 0 .. MaxVal :
         ProcInitSync(n, "send_receive",
           SendRecvMem(n, dest, [p \in 0 .. (n - 1) |-> (p + shift) % (MaxVal + 1)],
                       [p \in 0 .. (n - 1) |-> Garbage]), sync)
    \/ \E shift \in 0 .. MaxVal :
         ProcInitSync(n, "send_receive_complex",
           SendRecvMem(n, dest,
                       [p \in 0 .. (n - 1) |-> <<(p + shift) % (MaxVal + 1),
                                                 (p + shift + 1) % (MaxVal + 1)>>],
                       [p \in 0 .. (n - 1) |-> <<Garbage, Garbage>>]), sync)
    \/ \E lshift \in 0 .. MaxLen, full \in BOOLEAN :
         LET len(p) == (p + lshift) % (MaxLen + 1)
             glen   == IF full THEN MaxLen + 1 ELSE 0
         IN  \/ ProcInitSync(n, "send_receive_vec",
                  SendRecvMem(n, dest, [p \in 0 .. (n - 1) |-> Ramp(len(p), p)],
                              [p \in 0 .. (n - 1) |-> [i \in 1 .. glen |-> Garbage]]), sync)
             \/ ProcInitSync(n, "send_receive_vec_complex",
                  SendRecvMem(n, dest, [p \in 0 .. (n - 1) |-> ComplexRamp(len(p), p)],
                              [p \in 0 .. (n - 1) |->
                                 [i \in 1 .. glen |-> <<Garbage, Garbage>>]]), sync)
             \/ ProcInitSync(n, "send_receive_vecvec",
                  SendRecvMem(n, dest, [p \in 0 .. (n - 1) |-> NestedRamp(len(p), p)],
                              [p \in 0 .. (n - 1) |->
                                 [i \in 1 .. glen |-> <<Garbage, Garbage, Garbage>>]]), sync)

InitSendRecvN(n) ==
  \E dest \in [0 .. (n - 1) -> 0 .. (n - 1)], sync \in BOOLEAN :
    SendRecvInputs(n, dest, sync)

InitSendRecv == \E n \in 1 .. MaxProcs : InitSendRecvN(n)

NextSendRecv ==
  \/ \E p \in Procs : send_receive_call(p)
  \/ \E p \in Procs : send_receive_ret(p)
  \/ \E p \in Procs : send_receive_vec_call(p)
  \/ \E p \in Procs : send_receive_vec_size_ret(p)
  \/ \E p \in Procs : send_receive_vec_ret(p)
  \/ \E p \in Procs : send_receive_vecvec_call(p)
  \/ \E p \in Procs : send_receive_vecvec_size_ret(p)
  \/ \E p \in Procs : send_receive_vecvec_sizes_ret(p)
  \/ \E p \in Procs : send_receive_vecvec_ret(p)

SpecSendRecv == InitSendRecv /\ [][NextSendRecv]_vars

\* C4: for every overload of send_receive (scalar, complex, vector, complex
\* vector, vector of vectors) and every N, a call whose destination and
\* source are both the local rank ends with recv equal to send, leaves send
\* unchanged and makes no transport call.
C4_SelfSendReceiveIsLocalCopy ==
  \A p \in Procs :
    (orig[p].dest = p /\ orig[p].source = p) =>
      /\ ncalls[p] = 0
      /\ pc[p] \in {"start", "done"}
      /\ mem[p].send = orig[p].send
      /\ pc[p] = "done" => mem[p].recv = orig[p].send

\* among three processes, one has made the self call on a non-empty vector
\* of vectors while another pair has exchanged through the transport
C4_Witness ==
  /\ nprocs > 2
  /\ op = "send_receive_vecvec"
  /\ \E p \in Procs :
       /\ orig[p].dest = p /\ orig[p].source = p
       /\ pc[p] = "done"
       /\ Len(orig[p].send) > 1
       /\ orig[p].recv # orig[p].send
       /\ mem[p].recv = orig[p].send
  /\ \E q \in Procs : ncalls[q] > 0 /\ pc[q] = "done"

\* C35: the local-copy shortcut of send_receive is taken only when both
\* the destination and the source are the local rank; when exactly one of
\* them is (destination self, source another process) the transport is
\* called, and the message the process sends to itself is never matched by
\* its own receive of that call, which takes the message of its source.
C35_ShortcutNeedsBothSelf ==
  \A p \in Procs :
    /\ pc[p] # "start" =>
         (ncalls[p] = 0 <=> (orig[p].dest = p /\ orig[p].source = p))
    /\ (orig[p].dest = p /\ orig[p].source # p) =>
         /\ Len(chan[<<p, p>>]) = ncalls[p]
         /\ pc[p] # "abort"
         /\ (op \in {"send_receive_vec", "send_receive_vec_complex", "send_receive_vecvec"}
               /\ pc[p] \in {"sendrecv_sizes", "sendrecv_data"}) =>
              mem[p].recvsize = Len(orig[orig[p].source].send)
         /\ pc[p] = "done" => mem[p].recv = orig[orig[p].source].send
    /\ (orig[p].dest # p /\ orig[p].source = p) =>
         /\ pc[p] # "start" => ncalls[p] = 1
         /\ pc[p] \notin {"done", "abort"}

\* process 0 sends a vector to itself and receives from process 1: it has
\* taken the size process 1 sent, not its own, and the two messages it
\* sent to itself are still waiting
C35_Witness ==
  /\ op = "send_receive_vec"
  /\ orig[0].dest = 0 /\ orig[0].source = 1
  /\ pc[0] = "sendrecv_data"
  /\ Len(orig[1].send) # Len(orig[0].send)
  /\ mem[0].recvsize = Len(orig[1].send)
  /\ Len(mem[0].recv) = Len(orig[1].send)
  /\ Len(chan[<<0, 0>>]) = 2
  /\ chan[<<0, 0>>][1].data = <<Len(orig[0].send)>>


\* C14: send_receive on vectors between distinct processes: if p names q as
\* destination and q names p as source, then once the call of q has returned
\* its recv has the length and the elements, in order, of the send of p,
\* whatever recv held before (either length may be 0), and the send of p is
\* unchanged; the call of q does not fail.
C14_VectorSendReceiveDelivers ==
  \A p, q \in Procs :
    (/\ op \in {"send_receive_vec", "send_receive_vec_complex"}
     /\ p # q
     /\ orig[p].dest = q
     /\ orig[q].source = p) =>
      /\ mem[p].send = orig[p].send
      /\ pc[q] # "abort"
      /\ pc[q] = "done" => mem[q].recv = orig[p].send

\* process 1, whose recv held more elements than any message has, has
\* returned with the shorter, non-empty vector process 0 sent to it
C14_Witness ==
  /\ op = "send_receive_vec"
  /\ nprocs > 1
  /\ orig[0].dest = 1 /\ orig[1].source = 0
  /\ pc[1] = "done"
  /\ Len(orig[1].recv) = MaxLen + 1
  /\ Len(orig[0].send) \in 1 .. MaxLen
  /\ mem[1].recv = orig[0].send

\* C15: send_receive on vectors of vectors between distinct processes: if p
\* names q as destination and q names p as source, then once the call of q
\* has returned its recv has the outer length of the send of p and every
\* recv[i] the length and the elements of send[i] of p (empty inner vectors
\* and an empty outer vector included), and q has made exactly three
\* transport calls however many inner vectors there are.
C15_NestedSendReceiveDelivers ==
  \A p, q \in Procs :
    (/\ op = "send_receive_vecvec"
     /\ p # q
     /\ orig[p].dest = q
     /\ orig[q].source = p) =>
      /\ pc[q] # "abort"
      /\ pc[q] = "done" =>
           /\ Len(mem[q].recv) = Len(orig[p].send)
           /\ \A i \in 1 .. Len(orig[p].send) : mem[q].recv[i] = orig[p].send[i]
           /\ ncalls[q] = 3

\* process 0 has returned with the two inner vectors, one of them empty and
\* one not, that process 1 sent to it
C15_Witness ==
  /\ op = "send_receive_vecvec"
  /\ nprocs > 1
  /\ orig[1].dest = 0 /\ orig[0].source = 1
  /\ pc[0] = "done"
  /\ Len(orig[1].send) = 2
  /\ \E i, j \in 1 .. 2 : orig[1].send[i] = <<>> /\ Len(orig[1].send[j]) > 0
  /\ mem[0].recv = orig[1].send
  /\ ncalls[0] = 3

\* libmesh_assert(out == senddata.end()): the copies of the inner vectors
\* of send end where senddata(sendsizesum) ends
FlattenAssert(p) ==
  Len(Flatten(mem[p].send, 1)) = SumSizes(mem[p].sendsizes, mem[p].sendsize)

\* libmesh_assert(in == recvdata.end()): the recvsizes[i] read one after
\* the other end where recvdata(recvsizesum), holding the message m, ends
ScatterAssert(p, m) ==
  /\ Len(m.data) = SumSizes(mem[p].recvsizes, mem[p].recvsize)
  /\ \A i \in 1 .. mem[p].recvsize :
       /\ SumSizes(mem[p].recvsizes, i) <= Len(m.data)
       /\ Len(mem[p].recv[i]) >= mem[p].recvsizes[i]

\* C37: in send_receive on vectors of vectors both assertions always hold:
\* after flattening the write position is the end of the flat send buffer,
\* after scattering the read position is the end of the flat receive
\* buffer; the flat buffers have the sizes the exchanged inner lengths sum
\* to, and no element is read or written out of bounds.
C37_NestedAssertionsHold ==
  \A p \in Procs :
    op = "send_receive_vecvec" =>
      /\ pc[p] # "abort"
      /\ pc[p] \in {"sendrecv_sizes", "sendrecv_data"} =>
           /\ mem[p].sendsize = Len(mem[p].send)
           /\ Len(mem[p].sendsizes) = mem[p].sendsize
           /\ FlattenAssert(p)
      /\ pc[p] = "sendrecv_data" =>
           /\ Len(mem[p].recvsizes) = mem[p].recvsize
           /\ Len(mem[p].recv) = mem[p].recvsize
           /\ \A i \in 1 .. mem[p].recvsize : Len(mem[p].recv[i]) = mem[p].recvsizes[i]
           /\ CanRecv(chan, mem[p].source, p, 0) =>
                ScatterAssert(p, Received(chan, mem[p].source, p, 0))

\* process 0, whose recv held vectors of three elements, is about to cut a
\* flat buffer of two elements or more into inner vectors of which one is
\* empty
C37_Witness ==
  /\ op = "send_receive_vecvec"
  /\ pc[0] = "sendrecv_data"
  /\ orig[0].source # 0
  /\ Len(orig[0].recv) > 0
  /\ CanRecv(chan, mem[0].source, 0, 0)
  /\ Len(Received(chan, mem[0].source, 0, 0).data) >= 2
  /\ \E i, j \in 1 .. mem[0].recvsize : mem[0].recvsizes[i] = 0 /\ mem[0].recvsizes[j] > 1
  /\ FlattenAssert(0)
  /\ ScatterAssert(0, Received(chan, mem[0].source, 0, 0))

(***************************************************************************)
(* Specification SpecExchange: the calls of the processes form a           *)
(* permutation (process p sends to dest[p] and receives from the one       *)
(* process that sends to it): pairs that exchange, rings, and processes    *)
(* that send to themselves.  Each process keeps running, and a transport   *)
(* call that can return does return.                                       *)
(***************************************************************************)
DestPermutations(n) ==
  {dest \in [0 .. (n - 1) -> 0 .. (n - 1)] :
     \A p, q \in 0 .. (n - 1) : dest[p] = dest[q] => p = q}

InitExchange ==
  \E n \in 1 .. MaxProcs :
    \E dest \in DestPermutations(n), sync \in BOOLEAN : SendRecvInputs(n, dest, sync)

\* the steps of the call of process p
SendRecvStep(p) ==
  /\ p \in Procs
  /\ \/ send_receive_call(p)
     \/ send_receive_ret(p)
     \/ send_receive_vec_call(p)
     \/ send_receive_vec_size_ret(p)
     \/ send_receive_vec_ret(p)
     \/ send_receive_vecvec_call(p)
     \/ send_receive_vecvec_size_ret(p)
     \/ send_receive_vecvec_sizes_ret(p)
     \/ send_receive_vecvec_ret(p)

SpecExchange ==
  /\ InitExchange
  /\ [][NextSendRecv]_vars
  /\ \A p \in 0 .. (MaxProcs - 1) : WF_vars(SendRecvStep(p))

\* C13: when the send_receive calls of the processes form a permutation (two
\* processes exchanging with each other, a ring), every call eventually
\* returns, whatever the interleaving of the size phase and the payload
\* phase and whether or not the transport buffers the messages.
C13_ExchangeEventuallyReturns == <>(\A p \in Procs : pc[p] = "done")

\* processes 0 and 1 have exchanged vectors over a transport that completes
\* sends by rendezvous, and both have returned
C13_Witness ==
  /\ op = "send_receive_vec"
  /\ nprocs = 2
  /\ rendezvous
  /\ mem[0].dest = 1 /\ mem[0].source = 1 /\ mem[1].dest = 0 /\ mem[1].source = 0
  /\ pc[0] = "done" /\ pc[1] = "done"
  /\ ncalls[0] = 2 /\ ncalls[1] = 2

(***************************************************************************)
(* Specification SpecBackToBack: the processes, each sending to the one    *)
(* a fixed number of ranks further (two processes exchanging, a ring),     *)
(* call send_receive on vectors or on vectors of vectors several times in  *)
(* a row, every call with a vector of another length.                      *)
(***************************************************************************)
\* the destinations of n processes in a ring
RingDests(n) == {[p \in 0 .. (n - 1) |-> (p + step) % n] : step \in 0 .. (n - 1)}

\* the caller goes on to its next send_receive
send_receive_again(p) ==
  /\ op \in {"send_receive_vec", "send_receive_vecvec"}
  /\ pc[p] = "done"
  /\ mem[p].later # <<>>
  /\ mem' = [mem EXCEPT ![p].send = Head(mem[p].later), ![p].later = Tail(mem[p].later)]
  /\ NoMpi
  /\ Goto(p, "start")
  /\ Frame

BackToBackMem(n, dest, send, later) ==
  [p \in 0 .. (n - 1) |->
     [dest |-> dest[p], source |-> SourceFor(n, dest, p),
      send |-> send[p], recv |-> <<>>, later |-> later[p],
      sendsize |-> 0, recvsize |-> 0, sendsizes |-> <<>>, recvsizes |-> <<>>]]

InitBackToBack ==
  \E n \in 1 .. MaxProcs, lshift \in 0 .. MaxLen, again \in 1 .. (MaxLen - 1),
     sync \in BOOLEAN :
    \E dest \in RingDests(n) :
      LET len(p, k) == (p + k + lshift) % (MaxLen + 1)
      IN  \/ ProcInitSync(n, "send_receive_vec",
               BackToBackMem(n, dest,
                 [p \in 0 .. (n - 1) |-> Ramp(len(p, 0), p)],
                 [p \in 0 .. (n - 1) |->
                    [k \in 1 .. again |-> Ramp(len(p, k), p + k)]]), sync)
          \/ ProcInitSync(n, "send_receive_vecvec",
               BackToBackMem(n, dest,
                 [p \in 0 .. (n - 1) |-> NestedRamp(len(p, 0), p)],
                 [p \in 0 .. (n - 1) |->
                    [k \in 1 .. again |-> NestedRamp(len(p, k), p + k)]]), sync)

NextBackToBack ==
  \/ \E p \in Procs : send_receive_vec_call(p)
  \/ \E p \in Procs : send_receive_vec_size_ret(p)
  \/ \E p \in Procs : send_receive_vec_ret(p)
  \/ \E p \in Procs : send_receive_vecvec_call(p)
  \/ \E p \in Procs : send_receive_vecvec_size_ret(p)
  \/ \E p \in Procs : send_receive_vecvec_sizes_ret(p)
  \/ \E p \in Procs : send_receive_vecvec_ret(p)
  \/ \E p \in Procs : send_receive_again(p)

SpecBackToBack == InitBackToBack /\ [][NextBackToBack]_vars

\* the vectors q sends in its successive calls
Sends(q) == <<orig[q].send>> \o orig[q].later

\* the number of MPI_Sendrecv calls in one send_receive
Phases == IF op = "send_receive_vecvec" THEN 3 ELSE 2

\* what the k-th MPI_Sendrecv of q sends: the size, (the inner sizes,) the
\* payload of call (k - 1) \div Phases + 1
SentBySendrecv(q, k) ==
  LET v     == Sends(q)[(k - 1) \div Phases + 1]
      phase == (k - 1) % Phases
  IN  IF phase = 0 THEN <<Len(v)>>
      ELSE IF op = "send_receive_vecvec" /\ phase = 1 THEN [i \in 1 .. Len(v) |-> Len(v[i])]
      ELSE IF op = "send_receive_vecvec" THEN Flatten(v, 1)
      ELSE v

InSendrecv(p) == pc[p] \in {"sendrecv_size", "sendrecv_sizes", "sendrecv_data"}

\* C34: every message of send_receive carries tag 0, and over a transport
\* that keeps the order of the messages of a pair the receive of every
\* phase matches the message of the same phase of the same call of the
\* peer: the length receive never takes a payload or inner-lengths message,
\* also when calls follow each other at once and when the peer is a phase
\* ahead; every call ends with the vector the peer sent in that call.
C34_PhasesMatchInOrder ==
  \A p \in Procs :
    /\ pc[p] # "abort"
    /\ \A q \in Procs : \A i \in 1 .. Len(chan[<<q, p>>]) : chan[<<q, p>>][i].tag = 0
    /\ (InSendrecv(p) /\ CanRecv(chan, mem[p].source, p, 0)) =>
         LET q == mem[p].source
             i == FirstMatch(chan, q, p, 0)
         IN  /\ ncalls[q] - Len(chan[<<q, p>>]) + i = ncalls[p]
             /\ Received(chan, q, p, 0).data = SentBySendrecv(q, ncalls[p])
    /\ pc[p] = "done" =>
         mem[p].recv = Sends(mem[p].source)[Len(Sends(p)) - Len(mem[p].later)]

\* process 0 is still in the length phase of its second call while its
\* peer, a phase ahead, has already sent the payload of that call: two
\* messages wait for process 0, the length first
C34_Witness ==
  /\ op = "send_receive_vec"
  /\ nprocs = 2
  /\ mem[0].source = 1 /\ mem[1].dest = 0
  /\ pc[0] = "sendrecv_size" /\ ncalls[0] = 3
  /\ pc[1] = "sendrecv_data" /\ ncalls[1] = 4
  /\ Len(chan[<<1, 0>>]) = 2
  /\ Len(chan[<<1, 0>>][2].data) > 1

(***************************************************************************)
(* gather(root_id, std::vector<T> &r) and allgather(std::vector<T> &r)     *)
(***************************************************************************)
\* the offsets with the blocks in rank order but each one starting one
\* element too late from the second block on
Displacements_gap(sendlengths) ==
  [i \in 1 .. Len(sendlengths) |->
     IF i = 1 THEN 0 ELSE SumSizes(sendlengths, i - 1) + 1]

\* the loop "displacements[i] = globalsize; globalsize += sendlengths[i]"
\* (rank i is at position i + 1 of the sequences)
Displacements(sendlengths) ==
  [i \in 1 .. Len(sendlengths) |-> SumSizes(sendlengths, i - 1)]

GlobalSize(sendlengths) == SumSizes(sendlengths, Len(sendlengths))

\* the start of both functions announcing one element more than r holds
GatherLengthsCall_onemore(p) ==
  /\ mem' = [mem EXCEPT ![p].sendlengths = [i \in 1 .. nprocs |-> 0],
                        ![p].displacements = [i \in 1 .. nprocs |-> 0],
                        ![p].mysize = Len(mem[p].r)]
  /\ MpiEnter(p, Contribution("MPI_Allgather", <<Len(mem[p].r) + 1>>, 1, "none", 0))
  /\ UNCHANGED chan
  /\ Goto(p, "allgather_lengths")

\* the start of both functions, up to the entry into the MPI_Allgather of
\* Parallel::allgather(mysize, sendlengths)
GatherLengthsCall(p) ==
  /\ mem' = [mem EXCEPT ![p].sendlengths = [i \in 1 .. nprocs |-> 0],
                        ![p].displacements = [i \in 1 .. nprocs |-> 0],
                        ![p].mysize = Len(mem[p].r)]
  /\ MpiEnter(p, Contribution("MPI_Allgather", <<Len(mem[p].r)>>, 1, "none", 0))
  /\ UNCHANGED chan
  /\ Goto(p, "allgather_lengths")

gather_vec_call(p) ==
  /\ op = "gather_vec"
  /\ pc[p] = "start"
  /\ IF nprocs = 1
       THEN \* libmesh_assert (libMesh::processor_id()==root_id); return
            /\ UNCHANGED mem
            /\ NoMpi
            /\ Goto(p, IF p = mem[p].root_id THEN "done" ELSE "abort")
       ELSE GatherLengthsCall(p)
  /\ Frame

\* gather with r resized on every process, not only on root_id
gather_vec_lengths_ret_resizeall(p) ==
  /\ op = "gather_vec"
  /\ pc[p] = "allgather_lengths"
  /\ AllArrived(cseq[p])
  /\ LET sendlengths   == MpiAllgather(p)
         displacements == Displacements(sendlengths)
         globalsize    == GlobalSize(sendlengths)
     IN  IF globalsize = 0
           THEN /\ mem' = [mem EXCEPT ![p].sendlengths = sendlengths,
                                      ![p].displacements = displacements]
                /\ NoMpi
                /\ Goto(p, "done")
           ELSE /\ mem' = [mem EXCEPT
                      ![p].sendlengths = sendlengths,
                      ![p].displacements = displacements,
                      ![p].r_src = mem[p].r,
                      ![p].r = Resize(mem[p].r, globalsize, 0)]
                /\ MpiEnter(p, Contribution("MPI_Gatherv", mem[p].r, mem[p].mysize,
                                            "none", mem[p].root_id))
                /\ UNCHANGED chan
                /\ Goto(p, "gatherv")
  /\ Frame

\* the lengths have arrived: offsets and total size; quick return if the
\* total is 0; r_src = r; on root_id r.resize(globalsize); MPI_Gatherv
gather_vec_lengths_ret(p) ==
  /\ op = "gather_vec"
  /\ pc[p] = "allgather_lengths"
  /\ AllArrived(cseq[p])
  /\ LET sendlengths   == MpiAllgather(p)
         displacements == Displacements(sendlengths)
         globalsize    == GlobalSize(sendlengths)
     IN  IF globalsize = 0
           THEN /\ mem' = [mem EXCEPT ![p].sendlengths = sendlengths,
                                      ![p].displacements = displacements]
                /\ NoMpi
                /\ Goto(p, "done")
           ELSE /\ mem' = [mem EXCEPT
                      ![p].sendlengths = sendlengths,
                      ![p].displacements = displacements,
                      ![p].r_src = mem[p].r,
                      ![p].r = IF mem[p].root_id = p
                                 THEN Resize(mem[p].r, globalsize, 0)
                                 ELSE mem[p].r]
                /\ MpiEnter(p, Contribution("MPI_Gatherv", mem[p].r, mem[p].mysize,
                                            "none", mem[p].root_id))
                /\ UNCHANGED chan
                /\ Goto(p, "gatherv")
  /\ Frame

\* MPI_Gatherv returns: on the root once every block has arrived, elsewhere
\* as soon as the local block has been handed over
gather_vec_ret(p) ==
  /\ op = "gather_vec"
  /\ pc[p] = "gatherv"
  /\ mem[p].root_id \in Procs
  /\ IF mem[p].root_id = p
       THEN /\ AllArrived(cseq[p])
            /\ mem' = [mem EXCEPT ![p].r =
                         MpiGatherv(p, mem[p].r, mem[p].sendlengths, mem[p].displacements)]
       ELSE UNCHANGED mem
  /\ NoMpi
  /\ Goto(p, "done")
  /\ Frame

allgather_vec_call(p) ==
  /\ op = "allgather_vec"
  /\ pc[p] = "start"
  /\ IF nprocs = 1
       THEN /\ UNCHANGED mem
            /\ NoMpi
            /\ Goto(p, "done")
       ELSE GatherLengthsCall(p)
  /\ Frame

\* allgather with the quick return taken on the local size
allgather_vec_lengths_ret_localquick(p) ==
  /\ op = "allgather_vec"
  /\ pc[p] = "allgather_lengths"
  /\ AllArrived(cseq[p])
  /\ LET sendlengths   == MpiAllgather(p)
         displacements == Displacements(sendlengths)
         globalsize    == GlobalSize(sendlengths)
     IN  IF mem[p].mysize = 0
           THEN /\ mem' = [mem EXCEPT ![p].sendlengths = sendlengths,
                                      ![p].displacements = displacements]
                /\ NoMpi
                /\ Goto(p, "done")
           ELSE /\ mem' = [mem EXCEPT
                      ![p].sendlengths = sendlengths,
                      ![p].displacements = displacements,
                      ![p].r_src = mem[p].r,
                      ![p].r = Resize(mem[p].r, globalsize, 0)]
                /\ MpiEnter(p, Contribution("MPI_Allgatherv", mem[p].r, mem[p].mysize,
                                            "none", 0))
                /\ UNCHANGED chan
                /\ Goto(p, "allgatherv")
  /\ Frame

\* the lengths have arrived: offsets and total size; quick return if the
\* total is 0; r_src = r; r.resize(globalsize); MPI_Allgatherv
allgather_vec_lengths_ret(p) ==
  /\ op = "allgather_vec"
  /\ pc[p] = "allgather_lengths"
  /\ AllArrived(cseq[p])
  /\ LET sendlengths   == MpiAllgather(p)
         displacements == Displacements(sendlengths)
         globalsize    == GlobalSize(sendlengths)
     IN  IF globalsize = 0
           THEN /\ mem' = [mem EXCEPT ![p].sendlengths = sendlengths,
                                      ![p].displacements = displacements]
                /\ NoMpi
                /\ Goto(p, "done")
           ELSE /\ mem' = [mem EXCEPT
                      ![p].sendlengths = sendlengths,
                      ![p].displacements = displacements,
                      ![p].r_src = mem[p].r,
                      ![p].r = Resize(mem[p].r, globalsize, 0)]
                /\ MpiEnter(p, Contribution("MPI_Allgatherv", mem[p].r, mem[p].mysize,
                                            "none", 0))
                /\ UNCHANGED chan
                /\ Goto(p, "allgatherv")
  /\ Frame

allgather_vec_ret(p) ==
  /\ op = "allgather_vec"
  /\ pc[p] = "allgatherv"
  /\ AllArrived(cseq[p])
  /\ mem' = [mem EXCEPT ![p].r =
               MpiGatherv(p, mem[p].r, mem[p].sendlengths, mem[p].displacements)]
  /\ NoMpi
  /\ Goto(p, "done")
  /\ Frame

\* gather(root_id, send, recv) that leaves the size of recv on the root as
\* it was
gather_call_noresize(p) ==
  /\ op = "gather"
  /\ pc[p] = "start"
  /\ IF ~(mem[p].root_id < nprocs)
       THEN /\ UNCHANGED mem
            /\ NoMpi
            /\ Goto(p, "abort")
       ELSE IF nprocs > 1
              THEN /\ UNCHANGED mem
                   /\ MpiEnter(p, Contribution("MPI_Gather", <<mem[p].send>>, 1,
                                               "none", mem[p].root_id))
                   /\ UNCHANGED chan
                   /\ Goto(p, "mpi_gather")
              ELSE /\ mem' = [mem EXCEPT ![p].recv = RecvInto(mem[p].recv, <<mem[p].send>>)]
                   /\ NoMpi
                   /\ Goto(p, "done")
  /\ Frame

(***************************************************************************)
(* gather(root_id, T send, std::vector<T> &recv) and                       *)
(* allgather(T send, std::vector<T> &recv)                                 *)
(***************************************************************************)
gather_call(p) ==
  /\ op = "gather"
  /\ pc[p] = "start"
  /\ IF ~(mem[p].root_id < nprocs)
       THEN \* libmesh_assert(root_id < libMesh::n_processors())
            /\ UNCHANGED mem
            /\ NoMpi
            /\ Goto(p, "abort")
       ELSE LET recv == IF p = mem[p].root_id
                          THEN Resize(mem[p].recv, nprocs, 0)
                          ELSE mem[p].recv
            IN  IF nprocs > 1
                  THEN /\ mem' = [mem EXCEPT ![p].recv = recv]
                       /\ MpiEnter(p, Contribution("MPI_Gather", <<mem[p].send>>, 1,
                                                   "none", mem[p].root_id))
                       /\ UNCHANGED chan
                       /\ Goto(p, "mpi_gather")
                  ELSE \* recv[0] = send
                       /\ mem' = [mem EXCEPT ![p].recv = [recv EXCEPT ![1] = mem[p].send]]
                       /\ NoMpi
                       /\ Goto(p, "done")
  /\ Frame

\* MPI_Gather returns: on the root once every value has arrived, elsewhere
\* as soon as the local value has been handed over
gather_ret(p) ==
  /\ op = "gather"
  /\ pc[p] = "mpi_gather"
  /\ IF mem[p].root_id = p
       THEN /\ AllArrived(cseq[p])
            /\ mem' = [mem EXCEPT ![p].recv = RecvInto(mem[p].recv, MpiAllgather(p))]
       ELSE UNCHANGED mem
  /\ NoMpi
  /\ Goto(p, "done")
  /\ Frame

allgather_call(p) ==
  /\ op = "allgather"
  /\ pc[p] = "start"
  /\ LET recv == Resize(mem[p].recv, nprocs, 0)
     IN  IF nprocs > 1
           THEN /\ mem' = [mem EXCEPT ![p].recv = recv]
                /\ MpiEnter(p, Contribution("MPI_Allgather", <<mem[p].send>>, 1, "none", 0))
                /\ UNCHANGED chan
                /\ Goto(p, "mpi_allgather")
           ELSE \* recv[0] = send
                /\ mem' = [mem EXCEPT ![p].recv = [recv EXCEPT ![1] = mem[p].send]]
                /\ NoMpi
                /\ Goto(p, "done")
  /\ Frame

\* allgather(send, recv) whose transport call fills recv on rank 0 only
allgather_ret_rankzero(p) ==
  /\ op = "allgather"
  /\ pc[p] = "mpi_allgather"
  /\ AllArrived(cseq[p])
  /\ IF p = 0
       THEN mem' = [mem EXCEPT ![p].recv = RecvInto(mem[p].recv, MpiAllgather(p))]
       ELSE UNCHANGED mem
  /\ NoMpi
  /\ Goto(p, "done")
  /\ Frame

\* MPI_Allgather returns once every value has arrived
allgather_ret(p) ==
  /\ op = "allgather"
  /\ pc[p] = "mpi_allgather"
  /\ AllArrived(cseq[p])
  /\ mem' = [mem EXCEPT ![p].recv = RecvInto(mem[p].recv, MpiAllgather(p))]
  /\ NoMpi
  /\ Goto(p, "done")
  /\ Frame

(***************************************************************************)
(* Specification SpecGather: every process calls gather with the same      *)
(* root, or allgather, on vectors of any lengths or on a scalar.           *)
(***************************************************************************)
GatherMem(n, root_id, r) ==
  [p \in 0 .. (n - 1) |->
     [root_id |-> root_id, r |-> r[p], mysize |-> 0, sendlengths |-> <<>>,
      displacements |-> <<>>, r_src |-> <<>>]]

\* recv holds nothing, or more elements than there are processes
GatherScalarMem(n, root_id, send, full) ==
  [p \in 0 .. (n - 1) |->
     [root_id |-> root_id, send |-> send[p],
      recv |-> [i \in 1 .. (IF full THEN n + 1 ELSE 0) |-> Garbage]]]

InitGatherN(n) ==
  \/ \E r \in VecInputs(n, MaxLen) :
       \/ \E root_id \in 0 .. (n - 1) : ProcInit(n, "gather_vec", GatherMem(n, root_id, r))
       \/ ProcInit(n, "allgather_vec", GatherMem(n, 0, r))
  \/ \E send \in [0 .. (n - 1) -> 0 .. MaxVal], full \in BOOLEAN :
       \/ \E root_id \in 0 .. (n - 1) :
            ProcInit(n, "gather", GatherScalarMem(n, root_id, send, full))
       \/ ProcInit(n, "allgather", GatherScalarMem(n, 0, send, full))

InitGather == \E n \in 1 .. MaxProcs : InitGatherN(n)

NextGather ==
  \/ \E p \in Procs : gather_vec_call(p)
  \/ \E p \in Procs : gather_vec_lengths_ret(p)
  \/ \E p \in Procs : gather_vec_ret(p)
  \/ \E p \in Procs : allgather_vec_call(p)
  \/ \E p \in Procs : allgather_vec_lengths_ret(p)
  \/ \E p \in Procs : allgather_vec_ret(p)
  \/ \E p \in Procs : gather_call(p)
  \/ \E p \in Procs : gather_ret(p)
  \/ \E p \in Procs : allgather_call(p)
  \/ \E p \in Procs : allgather_ret(p)

SpecGather == InitGather /\ [][NextGather]_vars

\* the original vectors of the ranks q, q+1, ..., one after the other
RECURSIVE ConcatFrom(_)
ConcatFrom(q) == IF q >= nprocs THEN <<>> ELSE orig[q].r \o ConcatFrom(q + 1)

\* C5: for P > 1, when the root returns from gather(root, v) its vector is
\* the concatenation, in ascending rank order, of all processes' original
\* vectors (its own original content at its rank's place), of length
\* L_0 + ... + L_(P-1).
C5_GatherConcatenatesOnRoot ==
  \A p \in Procs :
    (op = "gather_vec" /\ nprocs > 1 /\ pc[p] = "done" /\ orig[p].root_id = p) =>
      mem[p].r = ConcatFrom(0)

\* root 1 of three processes has gathered three vectors of different lengths
C5_Witness ==
  /\ op = "gather_vec"
  /\ nprocs > 2
  /\ orig[0].root_id = 1
  /\ pc[1] = "done"
  /\ Len(orig[0].r) = 2 /\ Len(orig[1].r) = 1 /\ Len(orig[2].r) = 0
  /\ orig[0].r[1] # orig[0].r[2]
  /\ Len(mem[1].r) = 3

\* C6: gather(root, v) leaves the vector of every non-root process as it was
\* before the call, at every point of the call and for every combination of
\* lengths (quick return on total size 0 included).
C6_GatherLeavesNonRootUntouched ==
  \A p \in Procs :
    (op = "gather_vec" /\ orig[p].root_id # p) => mem[p].r = orig[p].r

\* a non-root process with a non-empty vector has returned from a gather in
\* which the root's vector has grown
C6_Witness ==
  /\ op = "gather_vec"
  /\ \E p \in Procs :
       /\ orig[p].root_id # p
       /\ pc[p] = "done"
       /\ Len(orig[p].r) > 0
       /\ pc[orig[p].root_id] = "done"
       /\ Len(mem[orig[p].root_id].r) > Len(orig[orig[p].root_id].r)

\* C7: for P > 1, every process that has returned from allgather(v) holds
\* the concatenation, in ascending rank order, of all processes' original
\* vectors, so all processes hold the same vector of length L_0+...+L_(P-1).
C7_AllgatherConcatenatesEverywhere ==
  \A p \in Procs :
    (op = "allgather_vec" /\ nprocs > 1 /\ pc[p] = "done") =>
      mem[p].r = ConcatFrom(0)

\* three processes, one of them with an empty vector, have all returned
\* from allgather with the same non-empty vector
C7_Witness ==
  /\ op = "allgather_vec"
  /\ nprocs > 2
  /\ \A p \in Procs : pc[p] = "done" /\ mem[p].r = mem[0].r
  /\ Len(orig[0].r) = 0 /\ Len(orig[1].r) = 2 /\ Len(orig[2].r) = 1
  /\ Len(mem[0].r) = 3

\* p has taken the quick return / has entered the bulk transfer
QuickReturned(p) == pc[p] = "done" /\ cseq[p] = 1
InBulkTransfer(p) == cseq[p] = 2

\* C31: in gather(root, vector) and allgather(vector) with N > 1 the quick
\* return (total size == 0) is decided on the all-gathered lengths and is
\* the same on every process: either every process enters the bulk
\* transfer or none does, so no process is in the bulk transfer while
\* another has already returned without it; on quick return no buffer is
\* modified.
C31_QuickReturnIsCollective ==
  (op \in {"gather_vec", "allgather_vec"} /\ nprocs > 1) =>
    \A p \in Procs :
      /\ QuickReturned(p) => /\ \A q \in Procs : ~InBulkTransfer(q)
                             /\ \A q \in Procs : Len(orig[q].r) = 0
                             /\ mem[p].r = orig[p].r
      /\ InBulkTransfer(p) => /\ \A q \in Procs : ~QuickReturned(q)
                              /\ \E q \in Procs : Len(orig[q].r) > 0
      /\ pc[p] = "done" => cseq[p] \in {1, 2}

\* the number of elements the ranks below i hold together
ElementsBelow(i) == Len(ConcatFrom(0)) - Len(ConcatFrom(i))

\* the positions of the destination block of rank i as p computed it
DestBlock(p, i) ==
  {j \in 0 .. (Len(ConcatFrom(0)) - 1) :
     /\ mem[p].displacements[i + 1] <= j
     /\ j < mem[p].displacements[i + 1] + mem[p].sendlengths[i + 1]}

\* C33: in gather(vector) and allgather(vector) the displacement computed
\* for rank i is the sum of the lengths of the ranks 0..i-1, so the N
\* destination blocks [displacement_i, displacement_i + L_i) are pairwise
\* disjoint, in ascending rank order, and cover [0, total size) exactly;
\* every process computes the same displacements.
C33_DisplacementsArePrefixSums ==
  \A p \in Procs :
    (/\ op \in {"gather_vec", "allgather_vec"}
     /\ nprocs > 1
     /\ pc[p] \in {"gatherv", "allgatherv", "done"}) =>
      /\ Len(mem[p].displacements) = nprocs
      /\ \A i \in Procs :
           /\ mem[p].sendlengths[i + 1] = Len(orig[i].r)
           /\ mem[p].displacements[i + 1] = ElementsBelow(i)
           /\ Cardinality(DestBlock(p, i)) = Len(orig[i].r)
           /\ \A k \in Procs :
                i < k => \A j \in DestBlock(p, i), j2 \in DestBlock(p, k) : j < j2
      /\ UNION {DestBlock(p, i) : i \in Procs} = 0 .. (Len(ConcatFrom(0)) - 1)
      /\ \A q \in Procs :
           pc[q] \in {"gatherv", "allgatherv", "done"} =>
             mem[q].displacements = mem[p].displacements

\* three processes with vectors of 1, 2 and 0 elements have all returned
\* from allgather with the offsets 0, 1, 3
C33_Witness ==
  /\ op = "allgather_vec"
  /\ nprocs > 2
  /\ Len(orig[0].r) = 1 /\ Len(orig[1].r) = 2 /\ Len(orig[2].r) = 0
  /\ \A p \in Procs : pc[p] = "done" /\ mem[p].displacements[1] = 0
                        /\ mem[p].displacements[2] = 1 /\ mem[p].displacements[3] = 3

\* three processes with empty vectors have all returned from gather after
\* the exchange of the lengths alone
C31_Witness ==
  /\ op = "gather_vec"
  /\ nprocs > 2
  /\ \A p \in Procs : QuickReturned(p) /\ ncalls[p] = 1 /\ orig[p].r = <<>>


\* C11: when every process has called gather(root, scalar, out) with the
\* same root, the out of the root, once it has returned, has length exactly
\* N and holds at index r the scalar of rank r, whatever out held before;
\* with one process this is done without a transport call.
C11_GatherScalarIndexedByRank ==
  \A p \in Procs :
    (op = "gather" /\ pc[p] = "done" /\ orig[p].root_id = p) =>
      /\ Len(mem[p].recv) = nprocs
      /\ \A r \in Procs : mem[p].recv[r + 1] = orig[r].send
      /\ nprocs = 1 => ncalls[p] = 0

\* root 1 of three processes, whose out held four other values, has gathered
\* scalars that are not all the same
C11_Witness ==
  /\ op = "gather"
  /\ nprocs > 2
  /\ orig[0].root_id = 1
  /\ pc[1] = "done"
  /\ Len(orig[1].recv) = nprocs + 1
  /\ orig[0].send # orig[2].send
  /\ Len(mem[1].recv) = nprocs

\* C12: when every process has called allgather(scalar, out), every process
\* that has returned has out of length exactly N with the scalar of rank r at
\* index r, so all processes hold the same sequence.
C12_AllgatherScalarIndexedByRank ==
  \A p \in Procs :
    (op = "allgather" /\ pc[p] = "done") =>
      /\ Len(mem[p].recv) = nprocs
      /\ \A r \in Procs : mem[p].recv[r + 1] = orig[r].send
      /\ \A q \in Procs : pc[q] = "done" => mem[q].recv = mem[p].recv

\* three processes with scalars that are not all the same have all returned
\* from allgather; out held too many values before
C12_Witness ==
  /\ op = "allgather"
  /\ nprocs > 2
  /\ \A p \in Procs : pc[p] = "done"
  /\ Len(orig[2].recv) = nprocs + 1
  /\ orig[0].send # orig[1].send
  /\ mem[2].recv[1] = orig[0].send

(***************************************************************************)
(* alltoall(std::vector<T> &buf)                                           *)
(***************************************************************************)
\* alltoall that enters MPI_Alltoall without the test of the size
alltoall_call_nosizetest(p) ==
  /\ op = "alltoall"
  /\ pc[p] = "start"
  /\ IF nprocs = 1
       THEN /\ UNCHANGED mem
            /\ NoMpi
            /\ Goto(p, "done")
       ELSE LET size_per_proc == Len(mem[p].r) \div nprocs
            IN  /\ mem' = [mem EXCEPT ![p].size_per_proc = size_per_proc]
                /\ MpiEnter(p, Contribution("MPI_Alltoall", mem[p].r,
                                            size_per_proc, "none", 0))
                /\ UNCHANGED chan
                /\ Goto(p, "alltoall")
  /\ Frame

alltoall_call(p) ==
  /\ op = "alltoall"
  /\ pc[p] = "start"
  /\ IF nprocs = 1
       THEN /\ UNCHANGED mem
            /\ NoMpi
            /\ Goto(p, "done")
       ELSE LET size_per_proc == Len(mem[p].r) \div nprocs
            IN  IF Len(mem[p].r) % nprocs = 0
                  THEN \* tmp(buf) is sent
                       /\ mem' = [mem EXCEPT ![p].size_per_proc = size_per_proc]
                       /\ MpiEnter(p, Contribution("MPI_Alltoall", mem[p].r,
                                                   size_per_proc, "none", 0))
                       /\ UNCHANGED chan
                       /\ Goto(p, "alltoall")
                  ELSE \* libmesh_assert (buf.size()%libMesh::n_processors() == 0)
                       /\ mem' = [mem EXCEPT ![p].size_per_proc = size_per_proc]
                       /\ NoMpi
                       /\ Goto(p, "abort")
  /\ Frame

\* alltoall with the send and the receive buffer swapped: the transposed
\* data lands in tmp and buf keeps its content
alltoall_ret_swapped(p) ==
  /\ op = "alltoall"
  /\ pc[p] = "alltoall"
  /\ AllArrived(cseq[p])
  /\ UNCHANGED mem
  /\ NoMpi
  /\ Goto(p, "done")
  /\ Frame

alltoall_ret(p) ==
  /\ op = "alltoall"
  /\ pc[p] = "alltoall"
  /\ AllArrived(cseq[p])
  /\ mem' = [mem EXCEPT ![p].r = MpiAlltoall(p, mem[p].r, mem[p].size_per_proc)]
  /\ NoMpi
  /\ Goto(p, "done")
  /\ Frame

(***************************************************************************)
(* Specification SpecAlltoall: every process calls alltoall on a buffer of *)
(* one common size; element j of process p carries a value of its own.     *)
(***************************************************************************)
Tagged(p, size, shift) == [j \in 1 .. size |-> p * size + (j - 1) + shift]

InitAlltoallN(n) ==
  \E size \in 0 .. (n * MaxLen), shift \in 0 .. MaxVal :
    ProcInit(n, "alltoall",
             [p \in 0 .. (n - 1) |-> [r |-> Tagged(p, size, shift), size_per_proc |-> 0]])

InitAlltoall == \E n \in 1 .. MaxProcs : InitAlltoallN(n)

NextAlltoall ==
  \/ \E p \in Procs : alltoall_call(p)
  \/ \E p \in Procs : alltoall_ret(p)

SpecAlltoall == InitAlltoall /\ [][NextAlltoall]_vars

\* C8: for P > 1 and buffers of one size P*K, when process i has returned
\* from alltoall its buffer still has P*K elements and its block j is the
\* block that process j originally held at position i.
C8_AlltoallTransposesBlocks ==
  \A i \in Procs :
    (nprocs > 1 /\ pc[i] = "done") =>
      LET K == Len(orig[i].r) \div nprocs
      IN  /\ Len(orig[i].r) = nprocs * K
          /\ Len(mem[i].r) = Len(orig[i].r)
          /\ \A j \in Procs : \A k \in 1 .. K :
               mem[i].r[j * K + k] = orig[j].r[i * K + k]

\* three processes have transposed buffers of three blocks of two elements
C8_Witness ==
  /\ nprocs > 2
  /\ \A p \in Procs : pc[p] = "done" /\ Len(orig[p].r) = 2 * nprocs
  /\ mem[0].r[3] = orig[1].r[1]
  /\ mem[0].r # orig[0].r

\* C18: with N > 1, a process that has called alltoall on a buffer whose
\* size is no multiple of N is in the failed assertion, has made no
\* transport call (it never entered MPI_Alltoall) and its buffer is what it
\* was before the call.
C18_AlltoallBadSizeFailsBeforeTranspose ==
  \A p \in Procs :
    (op = "alltoall" /\ nprocs > 1 /\ Len(orig[p].r) % nprocs # 0
       /\ pc[p] # "start") =>
      /\ pc[p] = "abort"
      /\ ncalls[p] = 0
      /\ cseq[p] = 0
      /\ mem[p].r = orig[p].r

\* two processes have called alltoall on buffers of three elements
C18_Witness ==
  /\ op = "alltoall"
  /\ nprocs = 2
  /\ Len(orig[0].r) = 3
  /\ pc[0] = "abort" /\ pc[1] = "abort"
  /\ ncalls[0] = 0

(***************************************************************************)
(* broadcast(T &data, root_id), broadcast(std::vector<T> &data, root_id)   *)
(* and broadcast(std::string &data, root_id)                               *)
(***************************************************************************)
\* the root of the MPI_Bcast p waits in has handed in its buffer
RootArrived(p) ==
  /\ coll[cseq[p]][p].root \in Procs
  /\ Arrived(cseq[p], coll[cseq[p]][p].root)

\* the buffer of the root is not longer than the count p receives with
BcastFits(p, buf) ==
  p = coll[cseq[p]][p].root \/ Len(coll[cseq[p]][coll[cseq[p]][p].root].buf) <= Len(buf)

\* the memory of the data of broadcast(T&) / broadcast(std::vector<T>&)
BcastBuf(x)    == IF op = "broadcast" THEN <<x>> ELSE x
BcastFrom(buf) == IF op = "broadcast" THEN buf[1] ELSE buf

\* the one-process branch without its assertion
BcastSerial_noassert(p) ==
  /\ UNCHANGED mem
  /\ NoMpi
  /\ Goto(p, "done")

\* if (n_processors() == 1) { libmesh_assert (processor_id() == root_id);
\* return; }
BcastSerial(p) ==
  /\ UNCHANGED mem
  /\ NoMpi
  /\ Goto(p, IF p = mem[p].root_id THEN "done" ELSE "abort")

broadcast_call(p) ==
  /\ op \in {"broadcast", "broadcast_vec"}
  /\ pc[p] = "start"
  /\ IF nprocs = 1
       THEN BcastSerial(p)
       ELSE /\ MpiEnter(p, Contribution("MPI_Bcast", BcastBuf(mem[p].data),
                                        Len(BcastBuf(mem[p].data)), "none", mem[p].root_id))
            /\ UNCHANGED <<chan, mem>>
            /\ Goto(p, "bcast")
  /\ Frame

\* broadcast whose MPI_Bcast leaves the buffer of every process as it was
broadcast_ret_keeplocal(p) ==
  /\ op \in {"broadcast", "broadcast_vec"}
  /\ pc[p] = "bcast"
  /\ RootArrived(p)
  /\ UNCHANGED mem
  /\ Goto(p, "done")
  /\ NoMpi
  /\ Frame

broadcast_ret(p) ==
  /\ op \in {"broadcast", "broadcast_vec"}
  /\ pc[p] = "bcast"
  /\ RootArrived(p)
  /\ IF BcastFits(p, BcastBuf(mem[p].data))
       THEN /\ mem' = [mem EXCEPT ![p].data =
                         BcastFrom(MpiBcast(p, BcastBuf(mem[p].data), mem[p].root_id))]
            /\ Goto(p, "done")
       ELSE \* libmesh_assert (ierr == MPI_SUCCESS)
            /\ UNCHANGED mem
            /\ Goto(p, "abort")
  /\ NoMpi
  /\ Frame

\* up to the entry into the MPI_Bcast of Parallel::broadcast(data_size, root_id)
broadcast_string_call(p) ==
  /\ op = "broadcast_string"
  /\ pc[p] = "start"
  /\ IF nprocs = 1
       THEN BcastSerial(p)
       ELSE /\ mem' = [mem EXCEPT ![p].data_size = Len(mem[p].data)]
            /\ MpiEnter(p, Contribution("MPI_Bcast", <<Len(mem[p].data)>>, 1,
                                        "none", mem[p].root_id))
            /\ UNCHANGED chan
            /\ Goto(p, "bcast_size")
  /\ Frame

\* broadcast(std::string) with data_c sized by the local string
broadcast_string_size_ret_localsize(p) ==
  /\ op = "broadcast_string"
  /\ pc[p] = "bcast_size"
  /\ RootArrived(p)
  /\ LET data_size == MpiBcast(p, <<mem[p].data_size>>, mem[p].root_id)[1]
         data_c    == mem[p].data
     IN  /\ mem' = [mem EXCEPT ![p].data_size = data_size,
                               ![p].data_c = data_c,
                               ![p].orig = mem[p].data]
         /\ MpiEnter(p, Contribution("MPI_Bcast", data_c, Len(data_c),
                                     "none", mem[p].root_id))
  /\ UNCHANGED chan
  /\ Goto(p, "bcast_data")
  /\ Frame

\* the size has arrived: data_c(data_size); orig(data); on the root data is
\* copied into data_c; up to the entry into the MPI_Bcast of
\* Parallel::broadcast(data_c, root_id)
broadcast_string_size_ret(p) ==
  /\ op = "broadcast_string"
  /\ pc[p] = "bcast_size"
  /\ RootArrived(p)
  /\ LET data_size == MpiBcast(p, <<mem[p].data_size>>, mem[p].root_id)[1]
         data_c    == [i \in 1 .. data_size |->
                         IF p = mem[p].root_id /\ i <= Len(mem[p].data)
                           THEN mem[p].data[i] ELSE 0]
     IN  /\ mem' = [mem EXCEPT ![p].data_size = data_size,
                               ![p].data_c = data_c,
                               ![p].orig = mem[p].data]
         /\ MpiEnter(p, Contribution("MPI_Bcast", data_c, Len(data_c),
                                     "none", mem[p].root_id))
  /\ UNCHANGED chan
  /\ Goto(p, "bcast_data")
  /\ Frame

\* the characters have arrived: data is rebuilt from data_c; on the root
\* libmesh_assert(data == orig)
broadcast_string_ret(p) ==
  /\ op = "broadcast_string"
  /\ pc[p] = "bcast_data"
  /\ RootArrived(p)
  /\ IF BcastFits(p, mem[p].data_c)
       THEN LET data_c == MpiBcast(p, mem[p].data_c, mem[p].root_id)
            IN  /\ mem' = [mem EXCEPT ![p].data_c = data_c, ![p].data = data_c]
                /\ Goto(p, IF p = mem[p].root_id /\ data_c # mem[p].orig
                             THEN "abort" ELSE "done")
       ELSE /\ UNCHANGED mem
            /\ Goto(p, "abort")
  /\ NoMpi
  /\ Frame

(***************************************************************************)
(* Specification SpecBcast: every process calls broadcast with the same    *)
(* root, on a scalar, on vectors of one common size, or on strings of any  *)
(* sizes.                                                                  *)
(***************************************************************************)
BcastMem(n, root_id, data) ==
  [p \in 0 .. (n - 1) |->
     [root_id |-> root_id, data |-> data[p], data_size |-> 0,
      data_c |-> <<>>, orig |-> <<>>]]

InitBcastN(n) ==
  \E root_id \in 0 .. (n - 1) :
    \/ \E data \in [0 .. (n - 1) -> 0 .. MaxVal] :
         ProcInit(n, "broadcast", BcastMem(n, root_id, data))
    \/ \E len \in 0 .. MaxLen :
         \E data \in Vectors(n, len) :
           ProcInit(n, "broadcast_vec", BcastMem(n, root_id, data))
    \/ \E data \in VecInputs(n, MaxStrLen) :
         ProcInit(n, "broadcast_string", BcastMem(n, root_id, data))

InitBcast == \E n \in 1 .. MaxProcs : InitBcastN(n)

NextBcast ==
  \/ \E p \in Procs : broadcast_call(p)
  \/ \E p \in Procs : broadcast_ret(p)
  \/ \E p \in Procs : broadcast_string_call(p)
  \/ \E p \in Procs : broadcast_string_size_ret(p)
  \/ \E p \in Procs : broadcast_string_ret(p)

SpecBcast == InitBcast /\ [][NextBcast]_vars

\* C9: for N > 1, every process that has returned from
\* broadcast(string, root) holds the root's original string (of length 0, 1
\* or more), whatever its own string was before; the root's is unchanged;
\* and no process ends in the failed assertion.
C9_StringBroadcastDeliversRootString ==
  \A p \in Procs :
    (op = "broadcast_string" /\ nprocs > 1) =>
      /\ pc[p] # "abort"
      /\ pc[p] = "done" => mem[p].data = orig[orig[p].root_id].data

\* root 1 of three processes has broadcast a string of two characters to a
\* process that held the empty string and to one that held another string
C9_Witness ==
  /\ op = "broadcast_string"
  /\ nprocs > 2
  /\ orig[0].root_id = 1
  /\ \A p \in Procs : pc[p] = "done"
  /\ Len(orig[1].data) = 2 /\ Len(orig[0].data) = 0
  /\ orig[2].data # orig[1].data
  /\ mem[0].data = orig[1].data /\ mem[2].data = orig[1].data

\* C21: for N > 1, on a scalar or on vectors of one common length, every
\* process that has returned from broadcast(data, root) holds the root's
\* original value(s); so the root's are unchanged and no vector has changed
\* its length; and no process ends in a failed assertion.
C21_BroadcastReplicatesRootValue ==
  \A p \in Procs :
    (op \in {"broadcast", "broadcast_vec"} /\ nprocs > 1) =>
      /\ pc[p] # "abort"
      /\ pc[p] = "done" =>
           /\ mem[p].data = orig[orig[p].root_id].data
           /\ op = "broadcast_vec" => Len(mem[p].data) = Len(orig[p].data)
      /\ (pc[p] = "done" /\ orig[p].root_id = p) => mem[p].data = orig[p].data

\* root 1 of three processes has broadcast a vector of two elements that
\* process 0 did not hold before
C21_Witness ==
  /\ op = "broadcast_vec"
  /\ nprocs > 2
  /\ orig[0].root_id = 1
  /\ \A p \in Procs : pc[p] = "done"
  /\ Len(orig[1].data) = 2
  /\ orig[0].data # orig[1].data
  /\ mem[0].data = orig[1].data

(***************************************************************************)
(* barrier()                                                               *)
(***************************************************************************)
\* MPI_Barrier (libMesh::COMM_WORLD), whatever the number of processes
barrier_call(p) ==
  /\ op = "barrier"
  /\ pc[p] = "start"
  /\ MpiEnter(p, Contribution("MPI_Barrier", <<>>, 0, "none", 0))
  /\ UNCHANGED <<chan, mem>>
  /\ Goto(p, "mpi_barrier")
  /\ Frame

\* a barrier that lets a process go without the others
barrier_ret_early(p) ==
  /\ op = "barrier"
  /\ pc[p] = "mpi_barrier"
  /\ UNCHANGED mem
  /\ NoMpi
  /\ Goto(p, "done")
  /\ Frame

barrier_ret(p) ==
  /\ op = "barrier"
  /\ pc[p] = "mpi_barrier"
  /\ AllArrived(cseq[p])
  /\ UNCHANGED mem
  /\ NoMpi
  /\ Goto(p, "done")
  /\ Frame

InitBarrierN(n) == ProcInit(n, "barrier", [p \in 0 .. (n - 1) |-> [called |-> TRUE]])

(***************************************************************************)
(* Specification SpecBarrier: every process calls barrier() the same       *)
(* number of times, one call after the other.  A process that can take a   *)
(* step eventually does.                                                   *)
(***************************************************************************)
\* the caller of p, back from barrier(), calls it again
barrier_again(p) ==
  /\ op = "barrier"
  /\ pc[p] = "done"
  /\ mem[p].again > 0
  /\ mem' = [mem EXCEPT ![p].again = @ - 1]
  /\ NoMpi
  /\ Goto(p, "start")
  /\ Frame

InitBarrier ==
  \E n \in 1 .. MaxProcs, again \in 0 .. (MaxLen - 1) :
    ProcInit(n, "barrier", [p \in 0 .. (n - 1) |-> [called |-> TRUE, again |-> again]])

NextBarrier ==
  \/ \E p \in Procs : barrier_call(p)
  \/ \E p \in Procs : barrier_ret(p)
  \/ \E p \in Procs : barrier_again(p)

BarrierStep(p) ==
  /\ p \in Procs
  /\ (barrier_call(p) \/ barrier_ret(p) \/ barrier_again(p))

SpecBarrier ==
  /\ InitBarrier
  /\ [][NextBarrier]_vars
  /\ \A p \in 0 .. (MaxProcs - 1) : WF_vars(BarrierStep(p))

\* the number of calls of barrier() p has returned from
BarrierReturns(p) == IF pc[p] = "mpi_barrier" THEN ncalls[p] - 1 ELSE ncalls[p]

\* C26: with N > 1, a process has returned from its k-th barrier() only if
\* every process has called barrier() k times; and once every process has
\* called it k times, every process eventually returns from its k-th call.
C26_BarrierSynchronises ==
  /\ [](nprocs > 1 =>
          \A p, q \in Procs : BarrierReturns(p) <= ncalls[q])
  /\ \A k \in 1 .. MaxLen :
       (nprocs > 1 /\ \A q \in Procs : ncalls[q] >= k)
         ~> (\A p \in Procs : BarrierReturns(p) >= k)

\* three processes have returned from their second barrier
C26_Witness ==
  /\ op = "barrier"
  /\ nprocs > 2
  /\ \A p \in Procs : pc[p] = "done" /\ ncalls[p] = 2 /\ mem[p].again = 0

(***************************************************************************)
(* irecv, isend and wait(request &), as a process uses them to trade a     *)
(* vector: irecv(source, rbuf, rreq) and isend(dest, sbuf, sreq) in the    *)
(* order postfirst names, then wait(rreq) and wait(sreq) in the order      *)
(* waitfirst names.                                                        *)
(***************************************************************************)
NullReq == [kind |-> "null", peer |-> 0, tag |-> 0]

\* the caller is about to call irecv / isend
IrecvNext(p) ==
  \/ pc[p] = "start" /\ mem[p].postfirst = "irecv"
  \/ pc[p] = "isend_first"
IsendNext(p) ==
  \/ pc[p] = "start" /\ mem[p].postfirst = "isend"
  \/ pc[p] = "irecv_posted"

\* irecv(source, rbuf, rreq) with the default tag any_tag: MPI_Irecv posts the
\* receive and returns
irecv(p) ==
  /\ op = "nonblocking"
  /\ IrecvNext(p)
  /\ mem' = [mem EXCEPT ![p].rreq = [kind |-> "recv", peer |-> mem[p].source,
                                     tag |-> any_tag]]
  /\ ncalls' = [ncalls EXCEPT ![p] = @ + 1]
  /\ UNCHANGED <<coll, cseq, chan>>
  /\ Goto(p, IF pc[p] = "start" THEN "irecv_posted" ELSE "isend_posted")
  /\ Frame

\* isend whose message never reaches the transport
isend_lost(p) ==
  /\ op = "nonblocking"
  /\ IsendNext(p)
  /\ mem' = [mem EXCEPT ![p].sreq = [kind |-> "send", peer |-> mem[p].dest, tag |-> 0]]
  /\ ncalls' = [ncalls EXCEPT ![p] = @ + 1]
  /\ UNCHANGED <<coll, cseq, chan>>
  /\ Goto(p, IF pc[p] = "start" THEN "isend_first" ELSE "isend_posted")
  /\ Frame

\* isend(dest, sbuf, sreq) with the default tag 0: MPI_Isend hands the
\* message to the transport and returns
isend(p) ==
  /\ op = "nonblocking"
  /\ IsendNext(p)
  /\ mem' = [mem EXCEPT ![p].sreq = [kind |-> "send", peer |-> mem[p].dest, tag |-> 0]]
  /\ chan' = ChanSend(chan, p, mem[p].dest, Msg(0, mem[p].sbuf))
  /\ ncalls' = [ncalls EXCEPT ![p] = @ + 1]
  /\ UNCHANGED <<coll, cseq>>
  /\ Goto(p, IF pc[p] = "start" THEN "isend_first" ELSE "isend_posted")
  /\ Frame

\* wait(r) enters MPI_Wait: on the request waitfirst names, then on the other
wait_call(p) ==
  /\ op = "nonblocking"
  /\ pc[p] \in {"isend_posted", "recv_waited", "send_waited"}
  /\ mem' = [mem EXCEPT ![p].waiting =
               CASE pc[p] = "isend_posted" -> mem[p].waitfirst
                 [] pc[p] = "recv_waited"  -> "sreq"
                 [] pc[p] = "send_waited"  -> "rreq"]
  /\ ncalls' = [ncalls EXCEPT ![p] = @ + 1]
  /\ UNCHANGED <<coll, cseq, chan>>
  /\ Goto(p, "mpi_wait")
  /\ Frame

\* MPI_Wait returns: for a receive once a matching message is there (it is
\* stored in the buffer given to irecv), for a send once the transport has
\* taken the message; the request becomes the null request
wait_ret(p) ==
  /\ op = "nonblocking"
  /\ pc[p] = "mpi_wait"
  /\ IF mem[p].waiting = "rreq"
       THEN /\ CanRecv(chan, mem[p].rreq.peer, p, mem[p].rreq.tag)
            /\ LET m == Received(chan, mem[p].rreq.peer, p, mem[p].rreq.tag)
               IN  IF RecvFits(Len(mem[p].rbuf), m.data)
                     THEN /\ mem' = [mem EXCEPT ![p].rbuf = RecvInto(mem[p].rbuf, m.data),
                                                ![p].rreq = NullReq]
                          /\ Goto(p, IF mem[p].waitfirst = "rreq"
                                       THEN "recv_waited" ELSE "done")
                     ELSE /\ UNCHANGED mem
                          /\ Goto(p, "abort")
            /\ chan' = ChanRecv(chan, mem[p].rreq.peer, p, mem[p].rreq.tag)
       ELSE /\ SendComplete(p, mem[p].sreq.peer)
            /\ mem' = [mem EXCEPT ![p].sreq = NullReq]
            /\ UNCHANGED chan
            /\ Goto(p, IF mem[p].waitfirst = "sreq" THEN "send_waited" ELSE "done")
  /\ UNCHANGED <<coll, cseq, ncalls>>
  /\ Frame

\* every process sends a vector of length len and has a receive buffer of
\* that length
NonblockingMem(n, dest, len, shift, postfirst, waitfirst) ==
  [p \in 0 .. (n - 1) |->
     [dest |-> dest[p], source |-> SourceFor(n, dest, p),
      sbuf |-> Ramp(len, p + shift), rbuf |-> [i \in 1 .. len |-> Garbage],
      sreq |-> NullReq, rreq |-> NullReq, waiting |-> "none",
      postfirst |-> postfirst[p], waitfirst |-> waitfirst[p]]]

\* every process calls irecv, isend, wait(rreq), wait(sreq)
InitNonblockingN(n) ==
  \E dest \in [0 .. (n - 1) -> 0 .. (n - 1)], len \in 0 .. MaxLen, shift \in 0 .. MaxVal,
     sync \in BOOLEAN :
    ProcInitSync(n, "nonblocking",
      NonblockingMem(n, dest, len, shift, [p \in 0 .. (n - 1) |-> "irecv"],
                     [p \in 0 .. (n - 1) |-> "rreq"]), sync)

(***************************************************************************)
(* Specification SpecNonblocking: two processes trade vectors, each with   *)
(* an isend to the other and an irecv from the other, posted in either     *)
(* order, and then a wait on each request, in either order.  A process     *)
(* that can take a step eventually does.                                   *)
(***************************************************************************)
InitNonblocking ==
  \E len \in 0 .. MaxLen, shift \in 0 .. MaxVal, sync \in BOOLEAN,
     postfirst \in [0 .. 1 -> {"irecv", "isend"}],
     waitfirst \in [0 .. 1 -> {"rreq", "sreq"}] :
    ProcInitSync(2, "nonblocking",
      NonblockingMem(2, [p \in 0 .. 1 |-> 1 - p], len, shift, postfirst, waitfirst), sync)

NextNonblocking ==
  \/ \E p \in Procs : irecv(p)
  \/ \E p \in Procs : isend(p)
  \/ \E p \in Procs : wait_call(p)
  \/ \E p \in Procs : wait_ret(p)

NonblockingStep(p) ==
  /\ p \in Procs
  /\ (irecv(p) \/ isend(p) \/ wait_call(p) \/ wait_ret(p))

SpecNonblocking ==
  /\ InitNonblocking
  /\ [][NextNonblocking]_vars
  /\ \A p \in 0 .. 1 : WF_vars(NonblockingStep(p))

\* C25: two processes that each post an isend to the other and an irecv from
\* the other and then wait on both requests: a process that has a posting
\* call to make can always make it (neither irecv nor isend blocks), and
\* eventually both processes have returned from both waits, each receive
\* buffer holding the send buffer of the peer.
C25_NonblockingExchangeCompletes ==
  /\ [](\A p \in Procs :
          pc[p] \in {"start", "irecv_posted", "isend_first"} =>
            ENABLED (irecv(p) \/ isend(p)))
  /\ <>(\A p \in Procs :
          /\ pc[p] = "done"
          /\ mem[p].rbuf = orig[1 - p].sbuf
          /\ mem[p].sreq = NullReq /\ mem[p].rreq = NullReq)

\* with sends completing by rendezvous, both processes have posted the isend
\* first, waited for the send first, and hold the two elements of the peer
C25_Witness ==
  /\ op = "nonblocking"
  /\ nprocs = 2
  /\ rendezvous
  /\ \A p \in Procs :
       /\ orig[p].postfirst = "isend" /\ orig[p].waitfirst = "sreq"
       /\ pc[p] = "done"
       /\ Len(mem[p].rbuf) = 2
       /\ mem[p].rbuf = orig[1 - p].sbuf
  /\ mem[0].rbuf # mem[1].rbuf

(***************************************************************************)
(* Specification SpecSerial: the HAVE_MPI build run with one process.      *)
(* Of the functions that call the transport only if n_processors() > 1     *)
(* the <name>_call action is the whole call: with one process it ends in   *)
(* "done" (or in a failed assertion), so their <name>_ret actions are      *)
(* never enabled and are left out of the next-state relation.              *)
(***************************************************************************)
InitSerial ==
  \/ InitReduceN(1)
  \/ InitVerifyN(1)
  \/ InitSendRecvN(1)
  \/ InitGatherN(1)
  \/ InitAlltoallN(1)
  \/ InitBcastN(1)
  \/ InitBarrierN(1)
  \/ InitNonblockingN(1)

NextSerial ==
  \/ \E p \in Procs : barrier_call(p)
  \/ \E p \in Procs : barrier_ret(p)
  \/ \E p \in Procs : min_call(p)
  \/ \E p \in Procs : min_vec_call(p)
  \/ \E p \in Procs : max_call(p)
  \/ \E p \in Procs : max_vec_call(p)
  \/ \E p \in Procs : sum_call(p)
  \/ \E p \in Procs : sum_vec_call(p)
  \/ \E p \in Procs : verify_call(p)
  \/ \E p \in Procs : irecv(p)
  \/ \E p \in Procs : isend(p)
  \/ \E p \in Procs : wait_call(p)
  \/ \E p \in Procs : wait_ret(p)
  \/ \E p \in Procs : send_receive_call(p)
  \/ \E p \in Procs : send_receive_vec_call(p)
  \/ \E p \in Procs : send_receive_vecvec_call(p)
  \/ \E p \in Procs : gather_call(p)
  \/ \E p \in Procs : gather_vec_call(p)
  \/ \E p \in Procs : allgather_call(p)
  \/ \E p \in Procs : allgather_vec_call(p)
  \/ \E p \in Procs : alltoall_call(p)
  \/ \E p \in Procs : broadcast_call(p)
  \/ \E p \in Procs : broadcast_string_call(p)

SpecSerial == InitSerial /\ [][NextSerial]_vars

\* the functions that call the transport whatever the number of processes
AlwaysTransportOps == {"barrier", "nonblocking"}

\* the output of the call on p equals its input
SerialIdentity(p) ==
  CASE op \in {"min", "max", "sum", "min_vec", "max_vec", "sum_vec",
               "gather_vec", "allgather_vec", "alltoall"} ->
         mem[p].r = orig[p].r
    [] op \in {"verify", "verify_vec"} ->
         mem[p].r = orig[p].r /\ mem[p].ret
    [] op \in {"send_receive", "send_receive_complex", "send_receive_vec",
               "send_receive_vec_complex", "send_receive_vecvec"} ->
         mem[p].recv = orig[p].send /\ mem[p].send = orig[p].send
    [] op \in {"gather", "allgather"} ->
         mem[p].recv = <<orig[p].send>>
    [] op \in {"broadcast", "broadcast_vec", "broadcast_string"} ->
         mem[p].data = orig[p].data
    [] op = "barrier" -> TRUE
    [] op = "nonblocking" -> mem[p].sbuf = orig[p].sbuf

\* C10 as stated: with one process in the transport-enabled build, every
\* operation (barrier, min, max, sum, verify, isend, irecv, wait,
\* send_receive, gather, allgather, alltoall, broadcast) completes with zero
\* calls into the transport and leaves its output equal to its input.
C10_SerialNoTransportCalls ==
  \A p \in Procs :
    nprocs = 1 =>
      /\ ncalls[p] = 0
      /\ pc[p] = "done" => SerialIdentity(p)

\* C10 amended: with one process in the transport-enabled build, min, max,
\* sum, verify, send_receive, gather, allgather, alltoall and broadcast
\* complete with zero calls into the transport and leave their output equal
\* to their input; barrier, isend, irecv and wait call the transport even
\* then.
C10_SerialNoTransportCallsExceptBarrierAndNonblocking ==
  \A p \in Procs :
    nprocs = 1 =>
      IF op \in AlwaysTransportOps
        THEN pc[p] # "start" => ncalls[p] > 0
        ELSE /\ ncalls[p] = 0
             /\ pc[p] \in {"start", "done"}
             /\ pc[p] = "done" => SerialIdentity(p)

\* the single process has returned from a gather of a scalar that replaced
\* what recv held, without a transport call
C10_Witness ==
  /\ nprocs = 1
  /\ op = "gather"
  /\ pc[0] = "done"
  /\ ncalls[0] = 0
  /\ Len(orig[0].recv) > 1
  /\ mem[0].recv = <<orig[0].send>>


(***************************************************************************)
(* min and max on std::vector<bool>: r is packed into unsigned ints, the   *)
(* words are reduced with MPI_BAND / MPI_BOR and unpacked into r.          *)
(***************************************************************************)
\* min(std::vector<bool> &r) reducing the words with MPI_BOR
min_vec_bool_call_bor(p) ==
  /\ op = "min_vec_bool"
  /\ LET rchar == pack_vector_bool(mem[p].r, UIntBits)
     IN  AllreduceCall(p, nprocs > 1, rchar, Len(rchar), "MPI_BOR")

\* min(std::vector<bool> &r) up to the entry into MPI_Allreduce
min_vec_bool_call(p) ==
  /\ op = "min_vec_bool"
  /\ LET rchar == pack_vector_bool(mem[p].r, UIntBits)
     IN  AllreduceCall(p, nprocs > 1, rchar, Len(rchar), "MPI_BAND")

\* max(std::vector<bool> &r) up to the entry into MPI_Allreduce
max_vec_bool_call(p) ==
  /\ op = "max_vec_bool"
  /\ LET rchar == pack_vector_bool(mem[p].r, UIntBits)
     IN  AllreduceCall(p, nprocs > 1, rchar, Len(rchar), "MPI_BOR")

\* unpack_vector_bool(temp, r), with its assertion on the sizes
UnpackReduced(p) ==
  /\ pc[p] = "allreduce"
  /\ AllArrived(cseq[p])
  /\ LET temp == MpiAllreduce(p)
     IN  IF UnpackAssert(temp, mem[p].r, UIntBits)
           THEN /\ mem' = [mem EXCEPT ![p].r = unpack_vector_bool(temp, mem[p].r, UIntBits)]
                /\ Goto(p, "done")
           ELSE /\ UNCHANGED mem
                /\ Goto(p, "abort")
  /\ NoMpi
  /\ Frame

min_vec_bool_ret(p) ==
  /\ op = "min_vec_bool"
  /\ UnpackReduced(p)

max_vec_bool_ret(p) ==
  /\ op = "max_vec_bool"
  /\ UnpackReduced(p)

(***************************************************************************)
(* Specification SpecReduceBool: every process calls min or max on a       *)
(* vector of booleans of one common length.                                *)
(***************************************************************************)
\* len booleans, TRUE (FALSE if flip) at every period-th index from phase on
BoolStripes(len, period, phase, flip) ==
  [i \in 1 .. len |-> (((i - 1 + phase) % period) = 0) # flip]

\* the processes hold the same stripes, or stripes shifted by their rank
BoolInputs(n, len) ==
  {[p \in 0 .. (n - 1) |-> BoolStripes(len, period, p * step, flip)] :
     period \in 1 .. MaxProcs, step \in 0 .. 1, flip \in BOOLEAN}

InitReduceBool ==
  \E n \in 1 .. MaxProcs, o \in {"min_vec_bool", "max_vec_bool"}, len \in 0 .. MaxBoolLen :
    \E v \in BoolInputs(n, len) :
      ProcInit(n, o, [p \in 0 .. (n - 1) |-> [r |-> v[p]]])

NextReduceBool ==
  \/ \E p \in Procs : min_vec_bool_call(p)
  \/ \E p \in Procs : min_vec_bool_ret(p)
  \/ \E p \in Procs : max_vec_bool_call(p)
  \/ \E p \in Procs : max_vec_bool_ret(p)

SpecReduceBool == InitReduceBool /\ [][NextReduceBool]_vars

\* C20: with N > 1 and boolean vectors of one common length, a process that
\* has returned from min(vector<bool>) holds at every index the AND of the
\* processes' original values at that index, from max(vector<bool>) the OR;
\* the length of the vector is unchanged (also when it is no multiple of the
\* word width, so that the last word has padding bits), and no process ends
\* in the failed assertion of unpack_vector_bool.
C20_BoolVectorMinMaxIsAndOr ==
  \A p \in Procs :
    (op \in {"min_vec_bool", "max_vec_bool"} /\ nprocs > 1) =>
      /\ pc[p] # "abort"
      /\ pc[p] = "done" =>
           /\ Len(mem[p].r) = Len(orig[p].r)
           /\ \A i \in 1 .. Len(orig[p].r) :
                mem[p].r[i] = IF op = "min_vec_bool"
                                THEN \A q \in Procs : orig[q].r[i]
                                ELSE \E q \in Procs : orig[q].r[i]

\* two processes have taken the min of vectors of 33 booleans (two words,
\* 31 padding bits): index 32 stays TRUE, index 33 becomes FALSE on process 0
C20_Witness ==
  /\ op = "min_vec_bool"
  /\ nprocs = 2
  /\ pc[0] = "done" /\ pc[1] = "done"
  /\ Len(mem[0].r) = UIntBits + 1
  /\ mem[0].r[UIntBits]
  /\ orig[0].r[UIntBits + 1] /\ ~mem[0].r[UIntBits + 1]

(***************************************************************************)
(* sum on std::complex<T> and on std::vector<std::complex<T> >: the        *)
(* complex values are handed to MPI_Allreduce as twice as many T, the      *)
(* result is received in place into r.                                     *)
(***************************************************************************)
\* sum(std::complex<T> &r) up to the entry into MPI_Allreduce
sum_complex_call(p) ==
  /\ op = "sum_complex"
  /\ AllreduceCall(p, nprocs > 1, ComplexToReals(<<mem[p].r>>), 2, "MPI_SUM")

sum_complex_ret(p) ==
  /\ op = "sum_complex"
  /\ pc[p] = "allreduce"
  /\ AllArrived(cseq[p])
  /\ mem' = [mem EXCEPT ![p].r =
               RealsToComplex(RecvInto(ComplexToReals(<<mem[p].r>>), MpiAllreduce(p)))[1]]
  /\ Goto(p, "done")
  /\ NoMpi
  /\ Frame

\* sum(std::vector<std::complex<T> > &r) with the count r.size()
sum_vec_complex_call_sizecount(p) ==
  /\ op = "sum_vec_complex"
  /\ AllreduceCall(p, nprocs > 1 /\ mem[p].r # <<>>, ComplexToReals(mem[p].r),
                   Len(mem[p].r), "MPI_SUM")

\* sum(std::vector<std::complex<T> > &r): skipped when r is empty; the count
\* is r.size() * 2
sum_vec_complex_call(p) ==
  /\ op = "sum_vec_complex"
  /\ AllreduceCall(p, nprocs > 1 /\ mem[p].r # <<>>, ComplexToReals(mem[p].r),
                   Len(mem[p].r) * 2, "MPI_SUM")

sum_vec_complex_ret(p) ==
  /\ op = "sum_vec_complex"
  /\ pc[p] = "allreduce"
  /\ AllArrived(cseq[p])
  /\ mem' = [mem EXCEPT ![p].r =
               RealsToComplex(RecvInto(ComplexToReals(mem[p].r), MpiAllreduce(p)))]
  /\ Goto(p, "done")
  /\ NoMpi
  /\ Frame

(***************************************************************************)
(* Specification SpecReduceComplex: every process calls sum on a complex   *)
(* scalar or on complex vectors of one common length.                      *)
(***************************************************************************)
\* one complex value per process, real and imaginary parts changing from
\* rank to rank by steps of their own
ComplexScalars(n) ==
  {[p \in 0 .. (n - 1) |->
      [r |-> <<(re + p * sre) % (MaxVal + 1), (im + p * sim) % (MaxVal + 1)>>]] :
     re \in 0 .. MaxVal, im \in 0 .. MaxVal, sre \in 0 .. MaxVal, sim \in 0 .. MaxVal}

ComplexVectors(n, len) ==
  {[p \in 0 .. (n - 1) |-> [r |-> ComplexRamp(len, shift + p * step)]] :
     shift \in 0 .. MaxVal, step \in 0 .. MaxVal}

InitReduceComplex ==
  \E n \in 1 .. MaxProcs :
    \/ \E m \in ComplexScalars(n) : ProcInit(n, "sum_complex", m)
    \/ \E len \in 0 .. MaxLen :
         \E m \in ComplexVectors(n, len) : ProcInit(n, "sum_vec_complex", m)

NextReduceComplex ==
  \/ \E p \in Procs : sum_complex_call(p)
  \/ \E p \in Procs : sum_complex_ret(p)
  \/ \E p \in Procs : sum_vec_complex_call(p)
  \/ \E p \in Procs : sum_vec_complex_ret(p)

SpecReduceComplex == InitReduceComplex /\ [][NextReduceComplex]_vars

\* C23: for N > 1, a process that has returned from sum on a complex scalar
\* holds <<sum of the N real parts, sum of the N imaginary parts>>; from sum
\* on complex vectors of one common length it holds that pair at every
\* index, in a vector of the length it had.
C23_ComplexSumIsComponentwise ==
  \A p \in Procs :
    (nprocs > 1 /\ pc[p] = "done") =>
      /\ op = "sum_complex" =>
           mem[p].r = <<RefSum([q \in Procs |-> orig[q].r[1]]),
                        RefSum([q \in Procs |-> orig[q].r[2]])>>
      /\ op = "sum_vec_complex" =>
           /\ Len(mem[p].r) = Len(orig[p].r)
           /\ \A i \in 1 .. Len(orig[p].r) :
                mem[p].r[i] = <<RefSum([q \in Procs |-> orig[q].r[i][1]]),
                                RefSum([q \in Procs |-> orig[q].r[i][2]])>>

\* three processes have summed complex vectors of two elements whose real
\* and imaginary sums differ
C23_Witness ==
  /\ op = "sum_vec_complex"
  /\ nprocs > 2
  /\ \A p \in Procs : pc[p] = "done" /\ Len(orig[p].r) = 2
  /\ mem[0].r[1][1] # mem[0].r[1][2]
  /\ mem[0].r[2][2] > orig[0].r[2][2]

(***************************************************************************)
(* gather(root_id, std::vector<std::complex<T> > &r) and                   *)
(* allgather(std::vector<std::complex<T> > &r): the lengths exchanged are  *)
(* counts of T, twice the numbers of complex elements.                     *)
(***************************************************************************)
\* the start of both functions, up to the entry into the MPI_Allgather of
\* Parallel::allgather(mysize, sendlengths), mysize = r.size() * 2
GatherComplexLengthsCall(p) ==
  /\ mem' = [mem EXCEPT ![p].sendlengths = [i \in 1 .. nprocs |-> 0],
                        ![p].displacements = [i \in 1 .. nprocs |-> 0],
                        ![p].mysize = Len(mem[p].r) * 2]
  /\ MpiEnter(p, Contribution("MPI_Allgather", <<Len(mem[p].r) * 2>>, 1, "none", 0))
  /\ UNCHANGED chan
  /\ Goto(p, "allgather_lengths")

gather_vec_complex_call(p) ==
  /\ op = "gather_vec_complex"
  /\ pc[p] = "start"
  /\ IF nprocs = 1
       THEN \* libmesh_assert (libMesh::processor_id()==root_id); return
            /\ UNCHANGED mem
            /\ NoMpi
            /\ Goto(p, IF p = mem[p].root_id THEN "done" ELSE "abort")
       ELSE GatherComplexLengthsCall(p)
  /\ Frame

\* the lengths have arrived: offsets and total size, in T; quick return if
\* the total is 0; r_src(r); on root_id r.resize(globalsize), globalsize
\* complex elements; MPI_Gatherv of mysize T
gather_vec_complex_lengths_ret(p) ==
  /\ op = "gather_vec_complex"
  /\ pc[p] = "allgather_lengths"
  /\ AllArrived(cseq[p])
  /\ LET sendlengths   == MpiAllgather(p)
         displacements == Displacements(sendlengths)
         globalsize    == GlobalSize(sendlengths)
     IN  IF globalsize = 0
           THEN /\ mem' = [mem EXCEPT ![p].sendlengths = sendlengths,
                                      ![p].displacements = displacements]
                /\ NoMpi
                /\ Goto(p, "done")
           ELSE /\ mem' = [mem EXCEPT
                      ![p].sendlengths = sendlengths,
                      ![p].displacements = displacements,
                      ![p].r_src = mem[p].r,
                      ![p].r = IF mem[p].root_id = p
                                 THEN Resize(mem[p].r, globalsize, <<0, 0>>)
                                 ELSE mem[p].r]
                /\ MpiEnter(p, Contribution("MPI_Gatherv", ComplexToReals(mem[p].r),
                                            mem[p].mysize, "none", mem[p].root_id))
                /\ UNCHANGED chan
                /\ Goto(p, "gatherv")
  /\ Frame

gather_vec_complex_ret(p) ==
  /\ op = "gather_vec_complex"
  /\ pc[p] = "gatherv"
  /\ mem[p].root_id \in Procs
  /\ IF mem[p].root_id = p
       THEN /\ AllArrived(cseq[p])
            /\ mem' = [mem EXCEPT ![p].r =
                         RealsToComplex(MpiGatherv(p, ComplexToReals(mem[p].r),
                                                   mem[p].sendlengths,
                                                   mem[p].displacements))]
       ELSE UNCHANGED mem
  /\ NoMpi
  /\ Goto(p, "done")
  /\ Frame

allgather_vec_complex_call(p) ==
  /\ op = "allgather_vec_complex"
  /\ pc[p] = "start"
  /\ IF nprocs = 1
       THEN /\ UNCHANGED mem
            /\ NoMpi
            /\ Goto(p, "done")
       ELSE GatherComplexLengthsCall(p)
  /\ Frame

\* the same on every process: r.resize(globalsize); MPI_Allgatherv
allgather_vec_complex_lengths_ret(p) ==
  /\ op = "allgather_vec_complex"
  /\ pc[p] = "allgather_lengths"
  /\ AllArrived(cseq[p])
  /\ LET sendlengths   == MpiAllgather(p)
         displacements == Displacements(sendlengths)
         globalsize    == GlobalSize(sendlengths)
     IN  IF globalsize = 0
           THEN /\ mem' = [mem EXCEPT ![p].sendlengths = sendlengths,
                                      ![p].displacements = displacements]
                /\ NoMpi
                /\ Goto(p, "done")
           ELSE /\ mem' = [mem EXCEPT
                      ![p].sendlengths = sendlengths,
                      ![p].displacements = displacements,
                      ![p].r_src = mem[p].r,
                      ![p].r = Resize(mem[p].r, globalsize, <<0, 0>>)]
                /\ MpiEnter(p, Contribution("MPI_Allgatherv", ComplexToReals(mem[p].r),
                                            mem[p].mysize, "none", 0))
                /\ UNCHANGED chan
                /\ Goto(p, "allgatherv")
  /\ Frame

allgather_vec_complex_ret(p) ==
  /\ op = "allgather_vec_complex"
  /\ pc[p] = "allgatherv"
  /\ AllArrived(cseq[p])
  /\ mem' = [mem EXCEPT ![p].r =
               RealsToComplex(MpiGatherv(p, ComplexToReals(mem[p].r),
                                         mem[p].sendlengths, mem[p].displacements))]
  /\ NoMpi
  /\ Goto(p, "done")
  /\ Frame

(***************************************************************************)
(* Specification SpecGatherComplex: every process calls gather (with one   *)
(* root) or allgather on a complex vector of a length of its own.          *)
(***************************************************************************)
ComplexVecInputs(n, maxlen) ==
  {[p \in 0 .. (n - 1) |-> ComplexRamp(len[p], p + shift)] :
     len \in Lengths(n, maxlen), shift \in 0 .. MaxVal}

InitGatherComplex ==
  \E n \in 1 .. MaxProcs :
    \E r \in ComplexVecInputs(n, MaxLen) :
      \/ \E root_id \in 0 .. (n - 1) :
           ProcInit(n, "gather_vec_complex", GatherMem(n, root_id, r))
      \/ ProcInit(n, "allgather_vec_complex", GatherMem(n, 0, r))

NextGatherComplex ==
  \/ \E p \in Procs : gather_vec_complex_call(p)
  \/ \E p \in Procs : gather_vec_complex_lengths_ret(p)
  \/ \E p \in Procs : gather_vec_complex_ret(p)
  \/ \E p \in Procs : allgather_vec_complex_call(p)
  \/ \E p \in Procs : allgather_vec_complex_lengths_ret(p)
  \/ \E p \in Procs : allgather_vec_complex_ret(p)

SpecGatherComplex == InitGatherComplex /\ [][NextGatherComplex]_vars

\* C24 as stated: for P > 1 and complex vectors, when the root returns from
\* gather(root, v), and when any process returns from allgather(v), its
\* vector is the concatenation, in ascending rank order, of the processes'
\* original vectors: exactly L_0 + ... + L_(P-1) complex elements, none
\* after them.
C24_ComplexGatherConcatenatesExactly ==
  \A p \in Procs :
    (nprocs > 1 /\ pc[p] = "done"
       /\ (op = "allgather_vec_complex"
             \/ (op = "gather_vec_complex" /\ orig[p].root_id = p))) =>
      mem[p].r = ConcatFrom(0)

(***************************************************************************)
(* The build without HAVE_MPI: one process, request is an unsigned int,    *)
(* and send, isend, recv, irecv and wait are the stubs of the #else        *)
(* branch.  libmesh_error() does not return.                               *)
(***************************************************************************)
\* send with the call returning to its caller
nompi_send_returns(p) ==
  /\ op = "nompi_send"
  /\ pc[p] = "start"
  /\ UNCHANGED mem
  /\ NoMpi
  /\ Goto(p, "done")
  /\ Frame

\* send (const unsigned int, std::vector<T> &, const unsigned int)
\* { libmesh_error(); }
nompi_send(p) ==
  /\ op = "nompi_send"
  /\ pc[p] = "start"
  /\ UNCHANGED mem
  /\ NoMpi
  /\ Goto(p, "abort")
  /\ Frame

\* recv (const int, std::vector<T> &, const int)
\* { libmesh_error(); return Status(); }
nompi_recv(p) ==
  /\ op = "nompi_recv"
  /\ pc[p] = "start"
  /\ UNCHANGED mem
  /\ NoMpi
  /\ Goto(p, "abort")
  /\ Frame

\* isend (const unsigned int, std::vector<T> &, request &, const int) {}
nompi_isend(p) ==
  /\ op = "nompi_isend"
  /\ pc[p] = "start"
  /\ UNCHANGED mem
  /\ NoMpi
  /\ Goto(p, "done")
  /\ Frame

\* irecv (const int, std::vector<T> &, request &, const int) {}
nompi_irecv(p) ==
  /\ op = "nompi_irecv"
  /\ pc[p] = "start"
  /\ UNCHANGED mem
  /\ NoMpi
  /\ Goto(p, "done")
  /\ Frame

\* wait (request &) {}
nompi_wait(p) ==
  /\ op = "nompi_wait"
  /\ pc[p] = "start"
  /\ UNCHANGED mem
  /\ NoMpi
  /\ Goto(p, "done")
  /\ Frame

\* wait (std::vector<request> &) {}
nompi_wait_all(p) ==
  /\ op = "nompi_wait_all"
  /\ pc[p] = "start"
  /\ UNCHANGED mem
  /\ NoMpi
  /\ Goto(p, "done")
  /\ Frame

(***************************************************************************)
(* Specification SpecNoMpi: the one process of the build without HAVE_MPI  *)
(* calls send, recv, isend, irecv or wait with any peer, buffer, request   *)
(* (or requests) and tag.                                                  *)
(***************************************************************************)
NoMpiOps ==
  {"nompi_send", "nompi_recv", "nompi_isend", "nompi_irecv", "nompi_wait",
   "nompi_wait_all"}

\* every vector of at most maxlen elements
AllVectors(maxlen) == UNION {[1 .. len -> 0 .. MaxVal] : len \in 0 .. maxlen}

InitNoMpi ==
  \E o \in NoMpiOps, peer \in 0 .. 1, buf \in AllVectors(MaxLen), r \in 0 .. MaxVal,
     reqs \in AllVectors(MaxLen), tag \in {any_tag, 0} :
    ProcInit(1, o, [p \in {0} |->
                      [peer |-> peer, buf |-> buf, req |-> r, reqs |-> reqs,
                       tag |-> tag]])

NextNoMpi ==
  \/ \E p \in Procs : nompi_send(p)
  \/ \E p \in Procs : nompi_recv(p)
  \/ \E p \in Procs : nompi_isend(p)
  \/ \E p \in Procs : nompi_irecv(p)
  \/ \E p \in Procs : nompi_wait(p)
  \/ \E p \in Procs : nompi_wait_all(p)

SpecNoMpi == InitNoMpi /\ [][NextNoMpi]_vars

\* C19: in the build without transport a blocking send or recv never
\* returns normally (once it has moved it is in the fatal error state),
\* while isend, irecv, wait(request) and wait(requests) return in one step
\* with the buffer, the request and the requests as they were and no
\* transport call made.
C19_NoMpiBlockingFatalNonblockingNoop ==
  \A p \in Procs :
    /\ op \in {"nompi_send", "nompi_recv"} =>
         /\ pc[p] \in {"start", "abort"}
         /\ mem[p] = orig[p]
    /\ (op \in {"nompi_isend", "nompi_irecv", "nompi_wait", "nompi_wait_all"}
          /\ pc[p] # "start") =>
         /\ pc[p] = "done"
         /\ mem[p].buf = orig[p].buf
         /\ mem[p].req = orig[p].req
         /\ mem[p].reqs = orig[p].reqs
         /\ ncalls[p] = 0

\* isend of a vector of two elements has returned
C19_Witness ==
  /\ op = "nompi_isend"
  /\ pc[0] = "done"
  /\ Len(mem[0].buf) = 2
  /\ mem[0].req = 1

(***************************************************************************)
(* The blocking send(dest, buf, tag = 0) and recv(source, buf,             *)
(* tag = any_tag) of the HAVE_MPI build; a process makes the calls its     *)
(* todo names, one after the other.                                        *)
(***************************************************************************)
\* what follows the return of a blocking call
BlockingReturn(p) ==
  IF Len(mem[p].todo) > 1 THEN "start" ELSE "done"

\* send up to the entry into MPI_Send
send_call(p) ==
  /\ op = "blocking"
  /\ pc[p] = "start"
  /\ Head(mem[p].todo) = "send"
  /\ chan' = ChanSend(chan, p, mem[p].dest, Msg(0, mem[p].sbuf))
  /\ ncalls' = [ncalls EXCEPT ![p] = @ + 1]
  /\ UNCHANGED <<coll, cseq, mem>>
  /\ Goto(p, "mpi_send")
  /\ Frame

\* MPI_Send returns once the transport has taken the message
send_ret(p) ==
  /\ op = "blocking"
  /\ pc[p] = "mpi_send"
  /\ SendComplete(p, mem[p].dest)
  /\ mem' = [mem EXCEPT ![p].todo = Tail(@)]
  /\ NoMpi
  /\ Goto(p, BlockingReturn(p))
  /\ Frame

\* recv up to the entry into MPI_Recv
recv_call(p) ==
  /\ op = "blocking"
  /\ pc[p] = "start"
  /\ Head(mem[p].todo) = "recv"
  /\ ncalls' = [ncalls EXCEPT ![p] = @ + 1]
  /\ UNCHANGED <<coll, cseq, chan, mem>>
  /\ Goto(p, "mpi_recv")
  /\ Frame

\* MPI_Recv returns once a matching message is there; a message longer than
\* buf.size() fails libmesh_assert (ierr == MPI_SUCCESS)
recv_ret(p) ==
  /\ op = "blocking"
  /\ pc[p] = "mpi_recv"
  /\ CanRecv(chan, mem[p].source, p, any_tag)
  /\ LET m == Received(chan, mem[p].source, p, any_tag)
     IN  IF RecvFits(Len(mem[p].rbuf), m.data)
           THEN /\ mem' = [mem EXCEPT ![p].rbuf = RecvInto(mem[p].rbuf, m.data),
                                      ![p].todo = Tail(@)]
                /\ Goto(p, BlockingReturn(p))
           ELSE /\ UNCHANGED mem
                /\ Goto(p, "abort")
  /\ chan' = ChanRecv(chan, mem[p].source, p, any_tag)
  /\ UNCHANGED <<coll, cseq, ncalls>>
  /\ Frame

\* the calls a process makes: a send, a recv, or a send followed by a recv
InitBlockingN(n) ==
  \E dest \in [0 .. (n - 1) -> 0 .. (n - 1)], len \in 0 .. MaxLen, shift \in 0 .. MaxVal,
     sync \in BOOLEAN, todo \in {<<"send">>, <<"recv">>, <<"send", "recv">>} :
    ProcInitSync(n, "blocking",
      [p \in 0 .. (n - 1) |->
         [dest |-> dest[p], source |-> SourceFor(n, dest, p),
          sbuf |-> Ramp(len, p + shift), rbuf |-> [i \in 1 .. len |-> Garbage],
          todo |-> todo]], sync)

(***************************************************************************)
(* The two builds with one process.  What the functions of the build       *)
(* without HAVE_MPI leave, computed from their bodies, next to what the    *)
(* HAVE_MPI build leaves when it is run with one process.                  *)
(***************************************************************************)
\* how a call of the build without HAVE_MPI ends, m its arguments
NoMpiPc(o, m) ==
  CASE o = "blocking" -> "abort"   \* libmesh_error()
    [] o \in {"send_receive", "send_receive_complex", "send_receive_vec",
              "send_receive_vec_complex", "send_receive_vecvec"} ->
         \* libmesh_assert (send_tgt == recv_source)
         IF m.dest = m.source THEN "done" ELSE "abort"
    [] o = "gather" ->
         \* libmesh_assert (!root_id)
         IF m.root_id = 0 THEN "done" ELSE "abort"
    [] OTHER -> "done"

\* gather / allgather of a scalar without recv.resize(1)
NoMpiBuffers_noresize(o, m) ==
  CASE o \in {"verify", "verify_vec"} -> <<m.r, TRUE>>
    [] o \in {"send_receive", "send_receive_complex", "send_receive_vec",
              "send_receive_vec_complex", "send_receive_vecvec"} -> <<m.send, m.send>>
    [] o \in {"gather", "allgather"} -> <<m.send, RecvInto(m.recv, <<m.send>>)>>
    [] o \in {"broadcast", "broadcast_vec", "broadcast_string"} -> <<m.data>>
    [] o = "barrier" -> <<>>
    [] o \in {"nonblocking", "blocking"} -> <<m.sbuf, m.rbuf>>
    [] OTHER -> <<m.r>>

\* the buffers (and the value returned) a call of the build without HAVE_MPI
\* leaves: verify returns true; send_receive does recv = send; gather and
\* allgather of a scalar do recv.resize(1); recv[0] = send; every other
\* function has an empty body
NoMpiBuffers(o, m) ==
  CASE o \in {"verify", "verify_vec"} -> <<m.r, TRUE>>
    [] o \in {"send_receive", "send_receive_complex", "send_receive_vec",
              "send_receive_vec_complex", "send_receive_vecvec"} -> <<m.send, m.send>>
    [] o \in {"gather", "allgather"} -> <<m.send, <<m.send>>>>
    [] o \in {"broadcast", "broadcast_vec", "broadcast_string"} -> <<m.data>>
    [] o = "barrier" -> <<>>
    [] o \in {"nonblocking", "blocking"} -> <<m.sbuf, m.rbuf>>
    [] OTHER -> <<m.r>>

\* the same buffers in the memory of the HAVE_MPI build
MpiBuffers(o, m) ==
  CASE o \in {"verify", "verify_vec"} -> <<m.r, m.ret>>
    [] o \in {"send_receive", "send_receive_complex", "send_receive_vec",
              "send_receive_vec_complex", "send_receive_vecvec"} -> <<m.send, m.recv>>
    [] o \in {"gather", "allgather"} -> <<m.send, m.recv>>
    [] o \in {"broadcast", "broadcast_vec", "broadcast_string"} -> <<m.data>>
    [] o = "barrier" -> <<>>
    [] o \in {"nonblocking", "blocking"} -> <<m.sbuf, m.rbuf>>
    [] OTHER -> <<m.r>>

(***************************************************************************)
(* Specification SpecBuilds: the HAVE_MPI build run with one process on    *)
(* every operation, blocking send and recv included, with the arguments    *)
(* that are valid with one process (root 0, destination and source 0).     *)
(***************************************************************************)
InitBuilds == InitSerial \/ InitBlockingN(1)

NextBuilds ==
  \/ NextSerial
  \/ \E p \in Procs : send_call(p)
  \/ \E p \in Procs : send_ret(p)
  \/ \E p \in Procs : recv_call(p)
  \/ \E p \in Procs : recv_ret(p)

SpecBuilds == InitBuilds /\ [][NextBuilds]_vars

\* the call has ended on p in the HAVE_MPI build as it ends in the build
\* without HAVE_MPI, with the same buffers
BuildsAgree(p) ==
  /\ pc[p] = NoMpiPc(op, orig[p])
  /\ MpiBuffers(op, mem[p]) = NoMpiBuffers(op, orig[p])

\* C27 as stated: with one process and arguments valid with one process,
\* every operation (blocking send and recv, isend, irecv and wait included)
\* that has ended in the HAVE_MPI build has ended as in the build without
\* HAVE_MPI: the same return or fatal error and the same buffers.
C27_BuildsAgreeOnEveryOperation ==
  \A p \in Procs : pc[p] \in {"done", "abort"} => BuildsAgree(p)

\* C27, amended: that holds for barrier, min, max, sum, verify,
\* send_receive, gather, allgather, alltoall and broadcast.  A blocking send
\* or recv never ends in the fatal error in the HAVE_MPI build (MPI_Send
\* and MPI_Recv return or block), and the receive buffer of an irecv that has
\* been waited for holds the message, while in the build without HAVE_MPI
\* it is untouched.
C27_BuildsAgreeExceptPointToPoint ==
  \A p \in Procs :
    /\ (op \notin {"blocking", "nonblocking"} /\ pc[p] \in {"done", "abort"}) =>
         BuildsAgree(p)
    /\ op = "blocking" => pc[p] # "abort"
    /\ (op = "nonblocking" /\ pc[p] = "done") => mem[p].rbuf = orig[p].sbuf

\* allgather of a scalar into a vector of two elements has returned with a
\* vector of one element, as the build without HAVE_MPI leaves it
C27_Witness ==
  /\ op = "allgather"
  /\ nprocs = 1
  /\ pc[0] = "done"
  /\ Len(orig[0].recv) = 2
  /\ mem[0].recv = <<orig[0].send>>
  /\ BuildsAgree(0)

(***************************************************************************)
(* Specification SpecRoot: the rooted operations called with any root id,  *)
(* those that are no rank of the communicator included.  MPI_Gatherv and   *)
(* MPI_Bcast handed such a root do not complete: the transport reports     *)
(* MPI_ERR_ROOT, through its error handler or through ierr and             *)
(* libmesh_assert (ierr == MPI_SUCCESS).                                   *)
(***************************************************************************)
MpiBadRoot(p) ==
  /\ pc[p] \in {"gatherv", "bcast", "bcast_size", "bcast_data"}
  /\ mem[p].root_id \notin Procs
  /\ UNCHANGED mem
  /\ NoMpi
  /\ Goto(p, "abort")
  /\ Frame

InitRootN(n) ==
  \E root_id \in 0 .. MaxProcs :
    \/ \E r \in VecInputs(n, MaxLen) : ProcInit(n, "gather_vec", GatherMem(n, root_id, r))
    \/ \E send \in [0 .. (n - 1) -> 0 .. MaxVal], full \in BOOLEAN :
         ProcInit(n, "gather", GatherScalarMem(n, root_id, send, full))
    \/ \E data \in [0 .. (n - 1) -> 0 .. MaxVal] :
         ProcInit(n, "broadcast", BcastMem(n, root_id, data))
    \/ \E len \in 0 .. MaxLen :
         \E data \in Vectors(n, len) :
           ProcInit(n, "broadcast_vec", BcastMem(n, root_id, data))
    \/ \E data \in VecInputs(n, MaxStrLen) :
         ProcInit(n, "broadcast_string", BcastMem(n, root_id, data))

InitRoot == \E n \in 1 .. MaxProcs : InitRootN(n)

NextRoot ==
  \/ \E p \in Procs : gather_vec_call(p)
  \/ \E p \in Procs : gather_vec_lengths_ret(p)
  \/ \E p \in Procs : gather_vec_ret(p)
  \/ \E p \in Procs : gather_call(p)
  \/ \E p \in Procs : gather_ret(p)
  \/ NextBcast
  \/ \E p \in Procs : MpiBadRoot(p)

SpecRoot == InitRoot /\ [][NextRoot]_vars

\* C22: with one process, a broadcast (scalar, vector or string) that has
\* moved has made no transport call and left the data as it was; it has
\* returned if the root is the local rank and is in the failed assertion if
\* it is not.
C22_SerialBroadcastAssertsRoot ==
  \A p \in Procs :
    (op \in {"broadcast", "broadcast_vec", "broadcast_string"} /\ nprocs = 1
       /\ pc[p] # "start") =>
      /\ ncalls[p] = 0
      /\ mem[p].data = orig[p].data
      /\ pc[p] = (IF orig[p].root_id = p THEN "done" ELSE "abort")

\* the only process has called broadcast on a string of two characters with
\* root 2
C22_Witness ==
  /\ op = "broadcast_string"
  /\ nprocs = 1
  /\ orig[0].root_id = 2
  /\ Len(orig[0].data) = 2
  /\ pc[0] = "abort"

\* C17 as stated: for every process count N >= 1, a rooted operation
\* (gather of a scalar or a vector, broadcast of a scalar, vector or
\* string) called with root id >= N ends in the failed assertion on every
\* process that has moved, and no transport call has been made.
C17_BadRootAbortsBeforeTransport ==
  \A p \in Procs :
    (orig[p].root_id >= nprocs /\ pc[p] # "start") =>
      (pc[p] = "abort" /\ ncalls[p] = 0)

(***************************************************************************)
(* Transport calls that return a nonzero status.  MPI_Gatherv,             *)
(* MPI_Allgatherv, MPI_Alltoall, MPI_Bcast, MPI_Isend and MPI_Irecv have   *)
(* their status kept in ierr and checked by                                *)
(* libmesh_assert (ierr == MPI_SUCCESS); the status of MPI_Allreduce,      *)
(* MPI_Sendrecv, MPI_Gather, MPI_Allgather, MPI_Barrier and MPI_Wait is    *)
(* dropped, and the code goes on with whatever the call left in the        *)
(* receive buffer.                                                         *)
(***************************************************************************)
\* the positions inside a transport call whose status is asserted on
CheckedLabels ==
  {"gatherv", "allgatherv", "alltoall", "bcast", "bcast_size", "bcast_data"}

\* the positions inside a transport call whose status is dropped
UncheckedLabels ==
  {"allreduce", "verify_min", "verify_max", "verify_flag", "allgather_lengths",
   "mpi_gather", "mpi_allgather", "mpi_barrier", "sendrecv", "sendrecv_size",
   "sendrecv_sizes", "sendrecv_data", "mpi_wait"}

\* the number of elements the transport call p is in may store
RecvCount(p) ==
  CASE pc[p] \in {"allreduce", "verify_min", "verify_max", "verify_flag"} ->
         coll[cseq[p]][p].count
    [] pc[p] \in {"allgather_lengths", "mpi_gather", "mpi_allgather"} -> nprocs
    [] pc[p] = "mpi_barrier" -> 0
    [] pc[p] = "sendrecv" -> Len(ScalarBuf(mem[p].recv))
    [] pc[p] = "sendrecv_size" -> 1
    [] pc[p] = "sendrecv_sizes" -> mem[p].recvsize
    [] pc[p] = "sendrecv_data" ->
         IF op = "send_receive_vecvec"
           THEN SumSizes(mem[p].recvsizes, mem[p].recvsize)
           ELSE Len(VecBuf(mem[p].recv))
    [] pc[p] = "mpi_wait" -> Len(mem[p].rbuf)

\* what a failed call may leave in a receive buffer of count elements
UndefinedBufs(count) == {[i \in 1 .. count |-> v] : v \in {0, Garbage}}

\* the transport call p is in fails (one call fails in a run): where ierr is
\* asserted on, the assertion fails; elsewhere the call will return with an
\* undefined receive buffer
MpiFails(p) ==
  /\ \A q \in Procs : fault[q] = NoFault
  /\ pc[p] \in CheckedLabels \cup UncheckedLabels
  /\ IF pc[p] \in CheckedLabels
       THEN /\ fault' = [fault EXCEPT ![p] = [at |-> ncalls[p], result |-> <<>>]]
            /\ Goto(p, "abort")
       ELSE /\ \E buf \in UndefinedBufs(RecvCount(p)) :
                 fault' = [fault EXCEPT ![p] = [at |-> ncalls[p], result |-> buf]]
            /\ UNCHANGED pc
  /\ UNCHANGED mem
  /\ NoMpi
  /\ CallFrame

\* MPI_Irecv returns a nonzero status: libmesh_assert (ierr == MPI_SUCCESS)
irecv_fails(p) ==
  /\ \A q \in Procs : fault[q] = NoFault
  /\ op = "nonblocking"
  /\ IrecvNext(p)
  /\ ncalls' = [ncalls EXCEPT ![p] = @ + 1]
  /\ fault' = [fault EXCEPT ![p] = [at |-> ncalls[p] + 1, result |-> <<>>]]
  /\ Goto(p, "abort")
  /\ UNCHANGED <<mem, coll, cseq, chan>>
  /\ CallFrame

\* MPI_Isend returns a nonzero status: libmesh_assert (ierr == MPI_SUCCESS)
isend_fails(p) ==
  /\ \A q \in Procs : fault[q] = NoFault
  /\ op = "nonblocking"
  /\ IsendNext(p)
  /\ ncalls' = [ncalls EXCEPT ![p] = @ + 1]
  /\ fault' = [fault EXCEPT ![p] = [at |-> ncalls[p] + 1, result |-> <<>>]]
  /\ Goto(p, "abort")
  /\ UNCHANGED <<mem, coll, cseq, chan>>
  /\ CallFrame

(***************************************************************************)
(* Specification SpecFault: every operation, over a transport of which one *)
(* call may return a nonzero status.                                       *)
(***************************************************************************)
InitFault ==
  \E n \in 1 .. MaxProcs :
    \/ InitReduceN(n)
    \/ InitVerifyN(n)
    \/ \E dest \in DestPermutations(n), sync \in BOOLEAN : SendRecvInputs(n, dest, sync)
    \/ InitGatherN(n)
    \/ InitAlltoallN(n)
    \/ InitBcastN(n)
    \/ InitBarrierN(n)
    \/ InitNonblockingN(n)

NextFault ==
  \/ NextReduce
  \/ NextVerify
  \/ NextSendRecv
  \/ NextGather
  \/ NextAlltoall
  \/ NextBcast
  \/ \E p \in Procs : barrier_call(p)
  \/ \E p \in Procs : barrier_ret(p)
  \/ \E p \in Procs : irecv(p)
  \/ \E p \in Procs : isend(p)
  \/ \E p \in Procs : wait_call(p)
  \/ \E p \in Procs : wait_ret(p)
  \/ \E p \in Procs : MpiFails(p)
  \/ \E p \in Procs : irecv_fails(p)
  \/ \E p \in Procs : isend_fails(p)

SpecFault == InitFault /\ [][NextFault]_vars

\* C16 as stated: a nonzero status returned by a transport call made by any
\* operation (reductions, isend, irecv, wait, send_receive, gather,
\* allgather, alltoall, broadcast) leads to the fatal assertion: the
\* operation of a process on which a transport call has failed never returns
\* normally.
C16_TransportFailureIsFatal ==
  \A p \in Procs :
    (op \notin {"barrier", "verify", "verify_vec"} /\ fault[p].at # 0) =>
      pc[p] # "done"

=============================================================================
